---- MODULE Spec2Model ----
(***************************************************************************)
(* State-machine model of the tick-knock entity/query/engine core.         *)
(*                                                                         *)
(* One Engine, its sharedConfig entity, NumEntities further entities, and  *)
(* one Query per element of Queries whose predicate is drawn at            *)
(* construction.  Every operator below is a translation of the method of   *)
(* the same name; the record M threaded through the operators is the heap  *)
(* the method runs on (entities, linked lists, next pointers, queries).    *)
(*                                                                         *)
(* Spec       engine, entities and one query under public calls            *)
(* EngineSpec the same with a listener on the engine's entity signals      *)
(* EntitySpec two entities outside any query, with linked components       *)
(* SignalSpec one Signal under connect, disconnect and emit                *)
(* ThrowingSpec     the same with handler functions that throw             *)
(* RouterSpec       handlers on the signals of entities in the engine      *)
(* SystemSpec       the engine's systems under add, remove, clear, update  *)
(* SubscriptionSpec the engine's message channel                           *)
(* ClearSpec        entities, queries and systems under Engine.clear       *)
(* ShadowSpec       Spec with a query over a subclass or the linked type   *)
(* ReentrantSpec    one Signal whose handlers touch it while it emits      *)
(* LoopSpec         Engine.update with an iterative system and removals    *)
(***************************************************************************)
EXTENDS Integers, Sequences, FiniteSets, TLC

(* ------------------------------ bounds -------------------------------- *)
NumEntities == 1        \* entities besides sharedConfig
MaxOps == 4             \* public calls per behaviour
MaxQueryAdds == 2       \* occurrences of one query in Engine._queries
MaxEntityOps == 5       \* public calls per behaviour on entities outside any engine
MaxSignalOps == 5       \* public calls per behaviour on one Signal
MaxSystemOps == 5       \* public calls per behaviour on the engine's systems
MaxSubscriptionOps == 4 \* public calls per behaviour on the engine's message channel
MaxLoopOps == 5         \* public calls per behaviour on an engine with an iterative system

(* ----------------------------- universe ------------------------------- *)
None == "none"
SharedConfig == 0                       \* Engine._sharedConfig
HelperId == -1                          \* Query._helper
NoEntity == -2                          \* EntitySnapshot._current undefined
NoList == 0                             \* no LinkedComponentList object
EntityIds == 0..NumEntities
ListIds == 1..(NumEntities + 2)
Queries == {1}

Tags == {"enemy"}
NonLinkedInst == {"p1", "p2", "s1"}
LinkedInst == {"d1", "d2", "d3"}
Inst == NonLinkedInst \cup LinkedInst
Classes == {"Position", "Sub", "Damage"}

\* the class an instance was constructed from
ClassOf(c) == IF c \in {"p1", "p2"} THEN "Position"
              ELSE IF c = "s1" THEN "Sub" ELSE "Damage"
\* class Sub extends Position
Ancestors(cls) == IF cls = "Sub" THEN {"Sub", "Position"} ELSE {cls}

isTag(item) == item \in Tags
isLinkedComponent(component) == component \in LinkedInst

\* resolveClass = None stands for an omitted argument
getComponentClass(component, resolveClass) ==
    IF resolveClass # None THEN resolveClass ELSE ClassOf(component)

PredKinds == {"hasEnemy", "hasPosition", "containsDamage", "notAll", "contains", "len2"}
\* the predicates over the linked component type
LinkedKinds == {"containsDamage", "len2"}
\* a predicate over the own class of a component that is added under its ancestor
OwnClassKinds == {"hasSub"}

Range(s) == {s[i] : i \in 1..Len(s)}
IndexOf(s, x) == IF x \in Range(s) THEN CHOOSE i \in 1..Len(s) : s[i] = x /\ \A j \in 1..(i-1) : s[j] # x ELSE 0
\* a local variable: v is computed once and named in what follows
With(v, Op(_)) == Op(v)
Splice(s, i) == [j \in 1..(Len(s) - 1) |-> IF j < i THEN s[j] ELSE s[j + 1]]

(* ------------------------------ state --------------------------------- *)
(* --------------------------- public calls ----------------------------- *)
\* e: the entity called (or passed to the engine), x: component, tag or class,
\* rc: resolveClass, q: query, o: the other entity of copyFrom
Call(op, e, x, rc, q, o) == [op |-> op, e |-> e, x |-> x, rc |-> rc, q |-> q, o |-> o]

VARIABLES
    ent,         \* entity id -> [c: _components, l: _linkedComponents, t: _tags, a]
    lhead,       \* LinkedComponentList._head per list object
    nxt,         \* ILinkedComponent.next per linked instance
    entities,    \* Engine._entities (and the ids of Engine._entityMap)
    connected,   \* entities whose three signals hold the engine's router handlers
    queries,     \* Engine._queries
    wired,       \* handlers of Engine.onEntityAdded/onEntityRemoved (query.entityAdded/entityRemoved)
    members,     \* Query._entities
    snap,        \* Query._snapshot: [cur, pc, pt] (current, previous._components, previous._tags)
    pred,        \* Query._predicate (fixed at construction)
    subscribed,  \* queries with a listener on onEntityAdded and onEntityRemoved
    log,         \* query handler calls made by the last public call
    last,        \* the last public call
    resolved,    \* entities that were given a component under a resolveClass
    silent,      \* entities changed by clear or copyFrom, which dispatch nothing
    qstate,      \* per query: "new", or the last of addQuery / removeQuery that took effect
    dup,         \* queries that were added while already in Engine._queries
    ops,         \* number of public calls made
    hook,        \* what the application's listener on Engine.onEntityAdded / onEntityRemoved does
    sigs,        \* what the entities' onComponentAdded / onComponentRemoved emitted during the last call
    limit,       \* number of public calls the behaviour may make
    created,     \* the component instances the application constructed
    seen,        \* the instances the action of the last iterate call was invoked with
    handlers,    \* Signal.handlers of one Signal: SignalHandler records [handler, priority]
    registered,  \* the connected handlers of that Signal in the order they were connected
    invoked,     \* the handlers the last emit of that Signal invoked, in order
    sigcall,     \* the last call on that Signal
    throwers,    \* the handler functions that throw when they are called
    esig,        \* per entity: Signal.handlers of onComponentAdded, onComponentRemoved, onInvalidationRequested
    systems,     \* Engine._systems
    hasEngine,   \* the systems whose _engine is defined
    priorityOf,  \* System._priority per system
    sysAdded,    \* the systems in Engine._systems in the order of their last addSystem call
    updated,     \* the systems the last update / updateFixed / updateLate / updateRender invoked, in order
    engsigs,     \* what Engine.onEntityAdded / onEntityRemoved emitted during the last call
    subscriptions, \* Engine._subscriptions: Subscription records [messageType, handler]
    received,    \* the subscriptions whose handler the last dispatch invoked, in order
    wasIn,       \* what the engine held when the last Engine.clear was called
    visited,     \* the entities the last update handed to IterativeSystem.updateEntity, in order
    stopped,     \* IterativeSystem._removed of the application's iterative system
    sigheld      \* per element of sigs: whether the entity held the instance or tag when the signal was emitted

vars == <<ent, lhead, nxt, entities, connected, queries, wired, members, snap,
          pred, subscribed, log, last, resolved, silent, qstate, dup, ops, hook, sigs, limit,
          created, seen, handlers, registered, invoked, sigcall, throwers, esig,
          systems, hasEngine, priorityOf, sysAdded, updated, engsigs, subscriptions, received, wasIn,
          sigheld, visited, stopped>>

\* the state of the message channel (and wasIn, which only Engine.clear sets)
SubscriptionVars == <<subscriptions, received, wasIn>>

\* the state of the iterative system
LoopVars == <<visited, stopped>>

\* the state of the systems
SystemVars == <<systems, hasEngine, priorityOf, sysAdded, updated>>

EmptyComponents == [cls \in Classes |-> None]
\* a: the linked instances appended to the entity and not removed since, in
\* the order of the append calls (history, read by the properties only)
EmptyEntity == [c |-> EmptyComponents, l |-> NoList, t |-> {}, a |-> <<>>]
EmptySnapshot == [cur |-> NoEntity, pc |-> EmptyComponents, pt |-> {}]

(* ------------------- the heap a method runs on ------------------------ *)
\* st: "ok", "throw" (an Error propagates to the caller) or "hang" (a loop
\* that never ends); once st # "ok" the rest of the call is skipped.
\* pre: the entity's value and the lists just before the elementary change
\* being dispatched (history, read by the properties only).
Heap == [ent |-> [i \in HelperId..NumEntities |-> IF i = HelperId THEN EmptyEntity ELSE ent[i]],
         lhead |-> lhead, nxt |-> nxt, entities |-> entities,
         connected |-> connected, esig |-> esig, queries |-> queries, wired |-> wired,
         members |-> members, snap |-> snap, log |-> <<>>,
         systems |-> systems, hasEngine |-> hasEngine, priorityOf |-> priorityOf,
         upd |-> <<>>, visited |-> <<>>, stopped |-> stopped,
         evs |-> <<>>, sig |-> <<>>, held |-> <<>>, eng |-> <<>>, seen |-> <<>>, st |-> "ok", found |-> FALSE, ret |-> None,
         pre |-> [v |-> EmptyEntity, lhead |-> lhead, nxt |-> nxt]]

HelperList == NumEntities + 2
\* calls of the action after which a walk along next must have repeated a node
MaxVisits == 2 * Cardinality(LinkedInst) + 1

(* ----------------------- LinkedComponentList -------------------------- *)
\* The operators below call one another the way the methods they model do
\* (a query handler changes the shadow entity through the Entity methods).
RECURSIVE WalkFrom(_, _, _), nodes(_, _), isEmpty(_, _), LinkedComponentList_add(_, _, _),
          LinkedComponentList_remove(_, _, _), get(_, _, _), hasComponent(_, _, _),
          hasTag(_, _, _), has(_, _, _), NewList(_, _), getLinkedComponentList(_, _, _),
          Mark(_, _), Now(_, _), remove(_, _, _), addComponent(_, _, _, _),
          addComponent_NoRemoval(_, _, _, _),
          withdrawComponent_StaleSlot(_, _, _, _),
          appendComponent(_, _, _, _), addTag(_, _, _), add(_, _, _, _), append(_, _, _, _),
          removeLoop(_, _, _, _, _), removeComponent(_, _, _), removeTag(_, _, _),
          withdrawComponent(_, _, _, _), withdraw(_, _, _), pick(_, _, _, _), clear(_, _),
          copyFrom(_, _, _), lengthOf(_, _), lengthOfHangs(_, _),
          hasAll_IgnoringTags(_, _, _, _), hasAll(_, _, _, _), predicate(_, _, _),
          predicateHangs(_, _, _), emit(_, _, _, _), predicateOn(_, _, _, _),
          Logged(_, _, _, _, _, _, _), takeSnapshot(_, _, _, _, _), Admit_Unshift(_, _, _, _, _, _),
          Admit(_, _, _, _, _, _),
          Evict(_, _, _, _, _, _), entityAddedBody_NoIndexCheck(_, _, _),
          entityAddedBody(_, _, _), entityAdded(_, _, _), entityRemovedBody(_, _, _),
          entityRemoved(_, _, _), updateHelper(_, _, _, _),
          entityComponentAddedBody(_, _, _, _, _), entityComponentAdded(_, _, _, _, _),
          entityComponentRemovedBody(_, _, _, _, _), entityComponentRemoved(_, _, _, _, _),
          validateEntityBody_NeverRemoves(_, _, _), validateEntityBody(_, _, _),
          validateEntity(_, _, _), matchEntitiesFrom(_, _, _, _), matchEntities(_, _, _),
          Query_clear(_, _), onComponentAdded(_, _, _, _), onComponentRemoved(_, _, _, _),
          onInvalidationRequested(_, _, _), dispatchOnComponentAdded(_, _, _),
          dispatchOnComponentRemoved(_, _, _), invalidate(_, _), connectEntity(_, _),
          disconnectEntity(_, _), connectQuery(_, _), disconnectQuery(_, _),
          emitOnEntityAdded(_, _, _, _), emitOnEntityRemoved(_, _, _, _), addEntity(_, _),
          removeEntity(_, _), addQuery(_, _), removeQuery(_, _), Invoke(_, _),
          Emit(_, _, _, _), onEntityAddedListener(_, _), onEntityRemovedListener(_, _),
          removeAllEntitiesFrom(_, _, _, _), removeAllEntitiesInternal(_, _),
          removeAllEntities(_), removeAllQueriesFrom(_, _, _), removeAllQueries(_),
          Engine_clear(_), removeEntities(_, _, _), EmitEngine(_, _, _), removeAllSystems(_), removeAllSystemsFrom(_, _, _),
          onAddedToEngine(_, _), onRemovedFromEngine(_, _), addSystem(_, _, _), removeSystem(_, _),
          updateEntity(_, _, _), updateEntities(_, _, _), System_update(_, _, _),
          Engine_updateFrom(_, _, _), Engine_update(_, _), Holds(_, _, _), Picked(_), action(_, _, _, _), iterateFrom(_, _, _, _, _), iterate(_, _, _)

\* the nodes visited from `node` along next, up to the first repetition
WalkFrom(nx, node, acc) ==
    IF node = None THEN [seq |-> acc, cyc |-> FALSE]
    ELSE IF node \in Range(acc) THEN [seq |-> acc, cyc |-> TRUE]
    ELSE WalkFrom(nx, nx[node], Append(acc, node))

nodes(M, L) == WalkFrom(M.nxt, M.lhead[L], <<>>)

isEmpty(M, L) == M.lhead[L] = None

\* variant of add that does not look for the component in the list
LinkedComponentList_add_NoCheck(M, L, linkedComponent) ==
    With(nodes(M, L), LAMBDA w :
        IF w.cyc THEN [M EXCEPT !.st = "hang"]
        ELSE IF M.lhead[L] = None THEN [M EXCEPT !.lhead[L] = linkedComponent]
        ELSE [M EXCEPT !.nxt[w.seq[Len(w.seq)]] = linkedComponent])

LinkedComponentList_add(M, L, linkedComponent) ==
    With(nodes(M, L), LAMBDA w :
        IF linkedComponent \in Range(w.seq) THEN [M EXCEPT !.st = "throw"]
        ELSE IF w.cyc THEN [M EXCEPT !.st = "hang"]
        ELSE IF M.lhead[L] = None THEN [M EXCEPT !.lhead[L] = linkedComponent]
        ELSE [M EXCEPT !.nxt[w.seq[Len(w.seq)]] = linkedComponent])

LinkedComponentList_remove(M, L, linkedComponent) ==
    With(nodes(M, L), LAMBDA w :
        LET i == IndexOf(w.seq, linkedComponent) IN
        IF i = 0 THEN (IF w.cyc THEN [M EXCEPT !.st = "hang"] ELSE [M EXCEPT !.found = FALSE])
        ELSE IF i = 1 THEN [M EXCEPT !.lhead[L] = M.nxt[linkedComponent], !.found = TRUE]
        ELSE [M EXCEPT !.nxt[w.seq[i - 1]] = M.nxt[linkedComponent], !.found = TRUE])

(* ------------------------------ Signal -------------------------------- *)
Handlers == {"h1", "h2", "h3"}
Priorities == {0, 1, 5}

\* this.handlers.findIndex(it => it.equals(handler)) + 1
FindHandler(hs, handler) ==
    IF \E i \in DOMAIN hs : hs[i].handler = handler
    THEN CHOOSE i \in DOMAIN hs : hs[i].handler = handler /\ \A j \in 1..(i - 1) : hs[j].handler # handler
    ELSE 0

\* sorted with h put behind the last element whose priority is not greater
InsertSorted(sorted, h) ==
    LET k == Cardinality({i \in DOMAIN sorted : sorted[i].priority <= h.priority}) IN
    [i \in 1..(Len(sorted) + 1) |-> IF i <= k THEN sorted[i] ELSE IF i = k + 1 THEN h ELSE sorted[i - 1]]

RECURSIVE SortFrom(_, _, _)
SortFrom(hs, i, sorted) ==
    IF i > Len(hs) THEN sorted ELSE SortFrom(hs, i + 1, InsertSorted(sorted, hs[i]))

\* this.handlers.sort((a, b) => a.priority - b.priority); Array.prototype.sort is stable
Sort(hs) == SortFrom(hs, 1, <<>>)

\* variant of connect that registers the handler without looking for it
Signal_connect_AlwaysPushes(hs, handler, priority) ==
    IF hs # <<>> /\ hs[Len(hs)].priority > priority
    THEN Sort(Append(hs, [handler |-> handler, priority |-> priority]))
    ELSE Append(hs, [handler |-> handler, priority |-> priority])

Signal_connect(hs, handler, priority) ==
    LET existingHandler == FindHandler(hs, handler) IN
    IF existingHandler # 0
    THEN IF hs[existingHandler].priority # priority
         THEN Sort([hs EXCEPT ![existingHandler].priority = priority])
         ELSE hs
    ELSE IF hs # <<>> /\ hs[Len(hs)].priority > priority
         THEN Sort(Append(hs, [handler |-> handler, priority |-> priority]))
         ELSE Append(hs, [handler |-> handler, priority |-> priority])

Signal_disconnect(hs, handler) ==
    LET existingHandlerIndex == FindHandler(hs, handler) IN
    IF existingHandlerIndex # 0 THEN Splice(hs, existingHandlerIndex) ELSE hs

\* the place of the first handler of hs that throws, 0 if none does
FirstThrowing(hs, throwing) ==
    IF \E i \in DOMAIN hs : hs[i].handler \in throwing
    THEN CHOOSE i \in DOMAIN hs : hs[i].handler \in throwing /\ \A j \in 1..(i - 1) : hs[j].handler \notin throwing
    ELSE 0

\* variant of emit that catches what a handler throws and goes on
Signal_emit_CatchesAndGoesOn(hs, throwing) ==
    [invoked |-> [i \in DOMAIN hs |-> hs[i].handler], st |-> "ok"]

\* the handlers emit calls, in order, and how emit ends (none of the handlers
\* touches the signal): the for-of loop stops at the first handler that
\* throws and the finally block throws the error again
Signal_emit(hs, throwing) ==
    LET k == FirstThrowing(hs, throwing) IN
    IF k = 0 THEN [invoked |-> [i \in DOMAIN hs |-> hs[i].handler], st |-> "ok"]
    ELSE [invoked |-> [i \in 1..k |-> hs[i].handler], st |-> "throw"]

\* what the handler `actor` does to the signal it is called from: nothing,
\* signal.disconnect(target) or signal.connect(target, priority)
Deeds == {"none", "disconnect", "connect"}
Handle(hs, handler, deed) ==
    IF handler # deed.actor THEN hs
    ELSE IF deed.kind = "disconnect" THEN Signal_disconnect(hs, deed.target)
    ELSE IF deed.kind = "connect" THEN Signal_connect(hs, deed.target, deed.priority)
    ELSE hs

\* emit with a handler that touches the signal: the for-of loop reads
\* this.handlers by position, one position further after every call, and
\* ends when the position is past the end of the array as it is then
RECURSIVE Signal_emitFrom(_, _, _, _, _)
Signal_emitFrom(hs, i, called, deed, throwing) ==
    IF i > Len(hs) THEN [handlers |-> hs, invoked |-> called, st |-> "ok"]
    ELSE IF hs[i].handler \in throwing
         THEN [handlers |-> hs, invoked |-> Append(called, hs[i].handler), st |-> "throw"]
    ELSE Signal_emitFrom(Handle(hs, hs[i].handler, deed), i + 1, Append(called, hs[i].handler),
                         deed, throwing)

\* the engine's handlers on an entity's signals (this.onComponentAdded,
\* this.onComponentRemoved, this.onInvalidationRequested), and the functions
\* the application connects to the same signals
Router == "router"
UserHandlers == {"h1", "h2"}
\* Number.POSITIVE_INFINITY and Number.NEGATIVE_INFINITY: above and below every other priority
PositiveInfinity == 99
NegativeInfinity == -99
UserPriorities == {NegativeInfinity, 0, 1, PositiveInfinity}
SignalNames == {"added", "removed", "invalidation"}
\* the three signals of a new Entity
NoHandlers == [added |-> <<>>, removed |-> <<>>, invalidation |-> <<>>]

\* the systems of the application and the priorities it adds them with
SystemIds == {"A", "B", "C"}
\* the application's IterativeSystem, the query it was constructed with, and
\* the tag its updateEntity removes (entity.remove(Damage) in the README)
IterativeSystemId == "I"
AllSystems == SystemIds \cup {IterativeSystemId}
LoopedQuery == 1
LoopedTag == "enemy"
SystemPriorities == {0, 1}

(* --------------------------- Subscription ----------------------------- *)
\* what the application subscribes to: two classes (Sub extends Position),
\* a string and an object; what it dispatches: an instance of each class,
\* two strings and the class Position itself
MessageTypes == {"Position", "Sub", "gameOver", "p1"}
Messages == {"p1", "s1", "gameOver", "roundOver", "Position"}
MessageHandlers == {"g1", "g2"}

\* typeof messageType === 'function'
isFunction(messageType) == messageType \in Classes
\* message instanceof messageType
instanceOf(message, messageType) ==
    message \in Inst /\ messageType \in Ancestors(ClassOf(message))

\* Subscription.equals; handler = None stands for undefined
Subscription_equals(subscription, messageType, handler) ==
    subscription.messageType = messageType /\ (handler = None \/ subscription.handler = handler)

\* Engine.addSubscription
addSubscription(subs, messageType, handler) ==
    IF \E i \in DOMAIN subs : Subscription_equals(subs[i], messageType, handler) THEN subs
    ELSE Append(subs, [messageType |-> messageType, handler |-> handler])

\* the loop while (--i >= 0) of removeSubscription, about to read this._subscriptions[i]
RECURSIVE removeSubscriptionFrom(_, _, _, _)
removeSubscriptionFrom(subs, i, messageType, handler) ==
    IF i < 1 THEN subs
    ELSE IF Subscription_equals(subs[i], messageType, handler)
         THEN IF handler # None THEN Splice(subs, i)
              ELSE removeSubscriptionFrom(Splice(subs, i), i - 1, messageType, handler)
    ELSE removeSubscriptionFrom(subs, i - 1, messageType, handler)

\* Engine.removeSubscription
removeSubscription(subs, messageType, handler) == removeSubscriptionFrom(subs, Len(subs), messageType, handler)

\* variant of dispatch that matches by strict equality only
Engine_dispatch_EqualityOnly(subs, message) ==
    SelectSeq(subs, LAMBDA subscription : message = subscription.messageType)

\* Engine.dispatch: the subscriptions whose handler is called, in order (no
\* handler subscribes or unsubscribes)
Engine_dispatch(subs, message) ==
    SelectSeq(subs, LAMBDA subscription :
        \/ isFunction(subscription.messageType) /\ instanceOf(message, subscription.messageType)
        \/ message = subscription.messageType)

(* ------------------------------ Entity -------------------------------- *)
get(M, e, componentClass) == M.ent[e].c[componentClass]
hasComponent(M, e, component) == M.ent[e].c[component] # None
hasTag(M, e, tag) == tag \in M.ent[e].t
has(M, e, componentClassOrTag) ==
    IF isTag(componentClassOrTag) THEN hasTag(M, e, componentClassOrTag)
    ELSE hasComponent(M, e, componentClassOrTag)

\* a list object no entity refers to; the helper entity of a query has one of its own
NewList(M, e) ==
    IF e = HelperId THEN HelperList
    ELSE CHOOSE L \in ListIds \ {HelperList} :
            /\ \A x \in EntityIds : M.ent[x].l # L
            /\ \A K \in ListIds \ {HelperList} : (\A x \in EntityIds : M.ent[x].l # K) => L <= K

getLinkedComponentList(M, e, createIfNotExists) ==
    IF M.ent[e].l # NoList \/ ~createIfNotExists THEN M
    ELSE LET L == NewList(M, e) IN [M EXCEPT !.ent[e].l = L, !.lhead[L] = None]

Mark(M, e) ==
    IF e = HelperId THEN M ELSE [M EXCEPT !.pre = [v |-> M.ent[e], lhead |-> M.lhead, nxt |-> M.nxt]]

\* the entity's value and the lists as they are now
Now(M, e) == [v |-> M.ent[e], lhead |-> M.lhead, nxt |-> M.nxt]


\* Entity.remove
remove(M, e, componentClassOrTag) ==
    IF isTag(componentClassOrTag) THEN [removeTag(M, e, componentClassOrTag) EXCEPT !.ret = None]
    ELSE removeComponent(M, e, componentClassOrTag)

\* variant of addComponent that does not remove the component it replaces
addComponent_NoRemoval(M, e, component, resolveClass) ==
    LET componentClass == getComponentClass(component, resolveClass) IN
    IF M.st # "ok" THEN M
    ELSE IF isLinkedComponent(component) THEN appendComponent(M, e, component, resolveClass)
    ELSE dispatchOnComponentAdded([Mark(M, e) EXCEPT !.ent[e].c[componentClass] = component], e, component)

addComponent(M, e, component, resolveClass) ==
    LET componentClass == getComponentClass(component, resolveClass)
        linkedComponent == isLinkedComponent(component)
    IN
    IF M.st # "ok" THEN M
    ELSE IF M.ent[e].c[componentClass] # None /\ ~linkedComponent /\ component = M.ent[e].c[componentClass] THEN M
    ELSE With(IF M.ent[e].c[componentClass] # None THEN remove(M, e, componentClass) ELSE M, LAMBDA M1 :
        IF M1.st # "ok" THEN M1
        ELSE IF linkedComponent THEN appendComponent(M1, e, component, resolveClass)
        ELSE dispatchOnComponentAdded([Mark(M1, e) EXCEPT !.ent[e].c[componentClass] = component], e, component))

appendComponent(M, e, component, resolveClass) ==
    IF M.st # "ok" THEN M
    ELSE With(getLinkedComponentList(Mark(M, e), e, TRUE), LAMBDA M1 :
         With(LinkedComponentList_add(M1, M1.ent[e].l, component), LAMBDA M2 :
            IF M2.st # "ok" THEN M2
            ELSE IF M2.ent[e].c["Damage"] = None
                 THEN dispatchOnComponentAdded([M2 EXCEPT !.ent[e].c["Damage"] = M2.lhead[M2.ent[e].l],
                                                          !.ent[e].a = Append(@, component)], e, component)
            ELSE dispatchOnComponentAdded([M2 EXCEPT !.ent[e].a = Append(@, component)], e, component)))

addTag(M, e, tag) ==
    IF M.st # "ok" \/ tag \in M.ent[e].t THEN M
    ELSE dispatchOnComponentAdded([Mark(M, e) EXCEPT !.ent[e].t = @ \cup {tag}], e, tag)

\* Entity.add (data defaults to {}, so Object.assign changes nothing)
add(M, e, componentOrTag, resolveClass) ==
    IF isTag(componentOrTag) THEN addTag(M, e, componentOrTag)
    ELSE addComponent(M, e, componentOrTag, resolveClass)

\* Entity.append
append(M, e, component, resolveClass) == appendComponent(M, e, component, resolveClass)

\* the while (!list.isEmpty) loop of removeComponent; it never ends on a
\* list whose next pointers form a cycle
removeLoop(M, e, componentClassOrTag, L, fuel) ==
    IF M.st # "ok" \/ isEmpty(M, L) THEN M
    ELSE IF fuel = 0 THEN [M EXCEPT !.st = "hang"]
    ELSE removeLoop(withdraw(M, e, componentClassOrTag), e, componentClassOrTag, L, fuel - 1)

removeComponent(M, e, componentClassOrTag) ==
    LET value == M.ent[e].c[componentClassOrTag] IN
    IF M.st # "ok" THEN M
    ELSE IF value = None THEN [M EXCEPT !.ret = None]
    ELSE IF isLinkedComponent(value)
         THEN With(getLinkedComponentList(M, e, TRUE), LAMBDA M1 :
              [removeLoop(M1, e, componentClassOrTag, M1.ent[e].l, Cardinality(LinkedInst) + 2) EXCEPT !.ret = value])
    ELSE [dispatchOnComponentRemoved([Mark(M, e) EXCEPT !.ent[e].c[componentClassOrTag] = None], e, value)
             EXCEPT !.ret = value]

removeTag(M, e, tag) ==
    IF M.st # "ok" \/ tag \notin M.ent[e].t THEN M
    ELSE dispatchOnComponentRemoved([Mark(M, e) EXCEPT !.ent[e].t = @ \ {tag}], e, tag)

\* variant of withdrawComponent that leaves the slot on the withdrawn head
withdrawComponent_StaleSlot(M, e, component, resolveClass) ==
    LET componentClass == getComponentClass(component, resolveClass)
        L == M.ent[e].l
    IN
    IF M.st # "ok" THEN M
    ELSE IF ~isLinkedComponent(component) THEN remove(M, e, componentClass)
    ELSE IF ~hasComponent(M, e, componentClass) \/ L = NoList THEN [M EXCEPT !.ret = None]
    ELSE With(LinkedComponentList_remove(Mark(M, e), L, component), LAMBDA M1 :
         With(IF isEmpty(M1, L)
              THEN [M1 EXCEPT !.ent[e].c[componentClass] = None, !.ent[e].l = NoList]
              ELSE M1, LAMBDA M2 :
            IF M1.st # "ok" THEN M1
            ELSE IF M1.found
                 THEN [dispatchOnComponentRemoved(
                           [M2 EXCEPT !.ent[e].a = SelectSeq(@, LAMBDA z : z # component)], e, component)
                       EXCEPT !.ret = component]
            ELSE [M2 EXCEPT !.ret = None]))

withdrawComponent(M, e, component, resolveClass) ==
    LET componentClass == getComponentClass(component, resolveClass)
        L == M.ent[e].l
    IN
    IF M.st # "ok" THEN M
    ELSE IF ~isLinkedComponent(component) THEN remove(M, e, componentClass)
    ELSE IF ~hasComponent(M, e, componentClass) \/ L = NoList THEN [M EXCEPT !.ret = None]
    ELSE With(LinkedComponentList_remove(Mark(M, e), L, component), LAMBDA M1 :
         With(IF isEmpty(M1, L)
              THEN [M1 EXCEPT !.ent[e].c[componentClass] = None, !.ent[e].l = NoList]
              ELSE [M1 EXCEPT !.ent[e].c[componentClass] = M1.lhead[L]], LAMBDA M2 :
            IF M1.st # "ok" THEN M1
            ELSE IF M1.found
                 THEN [dispatchOnComponentRemoved(
                           [M2 EXCEPT !.ent[e].a = SelectSeq(@, LAMBDA z : z # component)], e, component)
                       EXCEPT !.ret = component]
            ELSE [M2 EXCEPT !.ret = None]))

withdraw(M, e, componentClass) ==
    LET component == get(M, e, componentClass) IN
    IF M.st # "ok" THEN M
    ELSE IF component # None THEN withdrawComponent(M, e, component, componentClass)
    ELSE [M EXCEPT !.ret = None]

\* Entity.pick
pick(M, e, component, resolveClass) == withdrawComponent(M, e, component, resolveClass)

\* the instances an action handed to iterate picks, by the rule it follows
Picked(rule) ==
    CASE rule = "none" -> {}
      [] rule = "all" -> LinkedInst
      [] rule \in LinkedInst -> {rule}
      [] rule = "all but d1" -> LinkedInst \ {"d1"}
      [] rule = "all but d2" -> LinkedInst \ {"d2"}
      [] rule = "all but d3" -> LinkedInst \ {"d3"}

\* the action handed to iterate: it picks the instance it is called with if
\* its rule says so
action(M, e, component, rule) ==
    With([M EXCEPT !.seen = Append(@, component)], LAMBDA M1 :
        IF component \in Picked(rule) THEN pick(M1, e, component, None) ELSE M1)

\* LinkedComponentList.iterate over the generator nodes(): the action runs on
\* node, then node.next is read; a walk that goes on after MaxVisits calls
\* is on a cycle and never ends
iterateFrom(M, e, node, rule, fuel) ==
    IF M.st # "ok" \/ node = None THEN M
    ELSE IF fuel = 0 THEN [M EXCEPT !.st = "hang"]
    ELSE With(action(M, e, node, rule), LAMBDA M1 :
         iterateFrom(M1, e, M1.nxt[node], rule, fuel - 1))

\* Entity.iterate(Damage, action)
iterate(M, e, rule) ==
    IF ~hasComponent(M, e, "Damage") \/ M.ent[e].l = NoList THEN M
    ELSE iterateFrom(M, e, M.lhead[M.ent[e].l], rule, MaxVisits)

clear(M, e) == [M EXCEPT !.ent[e] = EmptyEntity]

copyFrom(M, e, entity) == [M EXCEPT !.ent[e] = M.ent[entity]]

\* the walk of Entity.lengthOf / iterate over the list of "Damage"
lengthOf(M, e) ==
    IF ~hasComponent(M, e, "Damage") \/ M.ent[e].l = NoList THEN 0
    ELSE Len(nodes(M, M.ent[e].l).seq)

lengthOfHangs(M, e) ==
    hasComponent(M, e, "Damage") /\ M.ent[e].l # NoList /\ nodes(M, M.ent[e].l).cyc

(* ------------------------------ Query --------------------------------- *)
\* variant of hasAll that leaves the listed tags unread
hasAll_IgnoringTags(M, e, components, tagSet) ==
    \A componentId \in components : M.ent[e].c[componentId] # None

\* QueryBuilder.contains(Position, "enemy").build(): reads entity.components[id] and entity.tags
hasAll(M, e, components, tagSet) ==
    /\ \A componentId \in components : M.ent[e].c[componentId] # None
    /\ \A tag \in tagSet : tag \in M.ent[e].t

\* the predicates a query is constructed with
predicate(kind, M, e) ==
    CASE kind = "hasEnemy" -> has(M, e, "enemy")
      [] kind = "hasPosition" -> has(M, e, "Position")
      [] kind = "hasSub" -> has(M, e, "Sub")
      [] kind = "notAll" -> ~(has(M, e, "Position") /\ has(M, e, "enemy"))
      [] kind = "contains" -> hasAll(M, e, {"Position"}, {"enemy"})
      [] kind = "containsDamage" -> hasAll(M, e, {"Damage"}, {})
      [] kind = "len2" -> lengthOf(M, e) >= 2

predicateHangs(kind, M, e) == kind = "len2" /\ lengthOfHangs(M, e)

\* a listener of Query.onEntityAdded / onEntityRemoved records what the snapshot shows
emit(M, q, kind, e) ==
    [M EXCEPT !.evs = Append(@, [kind |-> kind, cur |-> M.snap[q].cur,
                                 pc |-> M.snap[q].pc, pt |-> M.snap[q].pt,
                                 cc |-> M.ent[e].c, ct |-> M.ent[e].t])]

\* the predicate of kind `kind` on entity e as it was in `pre`
predicateOn(kind, M, e, pre) ==
    predicate(kind, [M EXCEPT !.ent[e] = pre.v, !.lhead = pre.lhead, !.nxt = pre.nxt], e)

\* one record per handler call: x the component or tag handed over, the
\* membership before and after, the events emitted, the entity's components
\* and tags before the change that caused the call (bc, bt) and at the call
\* (ac, at), and the predicate on the entity before the change and at the call;
\* the shadow entity the call leaves (hc, ht, its number of linked instances hn,
\* the predicate on it hp) and the entity's number of linked instances before
\* the change (bn) and at the call (an)
Logged(M, M2, fn, q, e, x, pre) ==
    IF M2.st # "ok" THEN M2
    ELSE [M2 EXCEPT !.log = Append(@, [q |-> q, fn |-> fn, e |-> e, x |-> x,
                                       before |-> M.members[q], after |-> M2.members[q],
                                       evs |-> M2.evs,
                                       bc |-> pre.v.c, bt |-> pre.v.t,
                                       ac |-> M.ent[e].c, at |-> M.ent[e].t,
                                       was |-> predicateOn(pred[q], M, e, pre),
                                       now |-> predicateOn(pred[q], M, e, Now(M, e)),
                                       hc |-> M2.ent[HelperId].c, ht |-> M2.ent[HelperId].t,
                                       hn |-> lengthOf(M2, HelperId),
                                       bn |-> lengthOf([M EXCEPT !.ent[e] = pre.v, !.lhead = pre.lhead,
                                                                 !.nxt = pre.nxt], e),
                                       an |-> lengthOf(M, e),
                                       hp |-> predicate(pred[q], M2, HelperId)]),
                    !.evs = M.evs \o M2.evs]

\* Entity.takeSnapshot(result, changedComponentOrTag, resolveClass); None = undefined
takeSnapshot(M, q, e, changedComponentOrTag, resolveClass) ==
    LET M1 == IF M.snap[q].cur # e
              THEN [M EXCEPT !.snap[q] = [cur |-> e, pc |-> M.ent[e].c, pt |-> M.ent[e].t]]
              ELSE M
        componentClass == IF resolveClass # None THEN resolveClass ELSE ClassOf(changedComponentOrTag)
    IN
    IF changedComponentOrTag = None THEN M1
    ELSE IF isTag(changedComponentOrTag)
         THEN IF has(M1, e, changedComponentOrTag)
              THEN [M1 EXCEPT !.snap[q].pt = @ \ {changedComponentOrTag}]
              ELSE [M1 EXCEPT !.snap[q].pt = @ \cup {changedComponentOrTag}]
    ELSE IF has(M1, e, componentClass)
         THEN [M1 EXCEPT !.snap[q].pc[componentClass] = None]
         ELSE [M1 EXCEPT !.snap[q].pc[componentClass] = changedComponentOrTag]

\* variant of the admitting body that puts the entity at the front of the list
Admit_Unshift(M, q, e, hasAddedHandlers, changed, resolveClass) ==
    LET M1 == [M EXCEPT !.members[q] = <<e>> \o @] IN
    IF hasAddedHandlers THEN emit(takeSnapshot(M1, q, e, changed, resolveClass), q, "added", e) ELSE M1

\* the body shared by the admitting branches: push, then snapshot and emit if listened to
Admit(M, q, e, hasAddedHandlers, changed, resolveClass) ==
    LET M1 == [M EXCEPT !.members[q] = Append(@, e)] IN
    IF hasAddedHandlers THEN emit(takeSnapshot(M1, q, e, changed, resolveClass), q, "added", e) ELSE M1

\* the body shared by the evicting branches: splice, then snapshot and emit if listened to
Evict(M, q, e, hasRemovedHandlers, changed, resolveClass) ==
    LET M1 == [M EXCEPT !.members[q] = Splice(@, IndexOf(@, e))] IN
    IF hasRemovedHandlers THEN emit(takeSnapshot(M1, q, e, changed, resolveClass), q, "removed", e) ELSE M1

\* variant of entityAdded without the indexOf test
entityAddedBody_NoIndexCheck(M, q, e) ==
    IF predicateHangs(pred[q], M, e) THEN [M EXCEPT !.st = "hang"]
    ELSE IF predicate(pred[q], M, e) THEN Admit(M, q, e, q \in subscribed, None, None)
    ELSE M

entityAddedBody(M, q, e) ==
    LET index == IndexOf(M.members[q], e) IN
    IF index = 0 /\ predicateHangs(pred[q], M, e) THEN [M EXCEPT !.st = "hang"]
    ELSE IF index = 0 /\ predicate(pred[q], M, e) THEN Admit(M, q, e, q \in subscribed, None, None)
    ELSE M

entityAdded(M, q, e) ==
    IF M.st # "ok" THEN M
    ELSE Logged(M, entityAddedBody([M EXCEPT !.evs = <<>>], q, e), "entityAdded", q, e, None, Now(M, e))

entityRemovedBody(M, q, e) ==
    LET index == IndexOf(M.members[q], e) IN
    IF index # 0 THEN Evict(M, q, e, q \in subscribed, None, None) ELSE M

entityRemoved(M, q, e) ==
    IF M.st # "ok" THEN M
    ELSE Logged(M, entityRemovedBody([M EXCEPT !.evs = <<>>], q, e), "entityRemoved", q, e, None, Now(M, e))

updateHelper(M, entity, component, resolveClass) ==
    With(copyFrom(clear(M, HelperId), HelperId, entity), LAMBDA M1 :
        IF ~isLinkedComponent(component) THEN add(M1, HelperId, component, None)
        ELSE IF ~has(M1, HelperId, getComponentClass(component, resolveClass))
             THEN append(M1, HelperId, component, None)
        ELSE M1)

entityComponentAddedBody(M, q, entity, componentOrTag, componentClass) ==
    With(updateHelper(M, entity, componentOrTag, componentClass), LAMBDA M1 :
        LET hasAddedHandlers == q \in subscribed
            hasRemovedHandlers == q \in subscribed
            index == IndexOf(M1.members[q], entity)
            isMatch == predicate(pred[q], M1, HelperId)
        IN
        IF M1.st # "ok" THEN M1
        ELSE IF predicateHangs(pred[q], M1, HelperId) THEN [M1 EXCEPT !.st = "hang"]
        ELSE IF index = 0 /\ isMatch THEN Admit(M1, q, entity, hasAddedHandlers, componentOrTag, componentClass)
        ELSE IF index # 0 /\ ~isMatch THEN Evict(M1, q, entity, hasRemovedHandlers, componentOrTag, componentClass)
        ELSE M1)

entityComponentAdded(M, q, entity, componentOrTag, componentClass) ==
    IF M.st # "ok" THEN M
    ELSE Logged(M, entityComponentAddedBody([M EXCEPT !.evs = <<>>], q, entity, componentOrTag, componentClass),
                "entityComponentAdded", q, entity, componentOrTag, M.pre)

entityComponentRemovedBody(M, q, entity, component, componentClass) ==
    With(updateHelper(M, entity, component, componentClass), LAMBDA M1 :
        LET hasAddedHandlers == q \in subscribed
            hasRemovedHandlers == q \in subscribed
            index == IndexOf(M1.members[q], entity)
        IN
        IF M1.st # "ok" THEN M1
        ELSE IF predicateHangs(pred[q], M1, HelperId) \/ predicateHangs(pred[q], M1, entity)
             THEN [M1 EXCEPT !.st = "hang"]
        ELSE IF index # 0 /\ predicate(pred[q], M1, HelperId) /\ ~predicate(pred[q], M1, entity)
             THEN Evict(M1, q, entity, hasRemovedHandlers, component, componentClass)
        ELSE IF index = 0 /\ predicate(pred[q], M1, entity) /\ ~predicate(pred[q], M1, HelperId)
             THEN Admit(M1, q, entity, hasAddedHandlers, component, componentClass)
        ELSE M1)

entityComponentRemoved(M, q, entity, component, componentClass) ==
    IF M.st # "ok" THEN M
    ELSE Logged(M, entityComponentRemovedBody([M EXCEPT !.evs = <<>>], q, entity, component, componentClass),
                "entityComponentRemoved", q, entity, component, M.pre)

\* variant of validateEntity that never takes the removing branch
validateEntityBody_NeverRemoves(M, q, entity) ==
    IF predicateHangs(pred[q], M, entity) THEN [M EXCEPT !.st = "hang"]
    ELSE entityAdded(M, q, entity)

validateEntityBody(M, q, entity) ==
    LET index == IndexOf(M.members[q], entity) IN
    IF predicateHangs(pred[q], M, entity) THEN [M EXCEPT !.st = "hang"]
    ELSE IF index # 0 /\ ~predicate(pred[q], M, entity) THEN entityRemoved(M, q, entity)
    ELSE entityAdded(M, q, entity)

validateEntity(M, q, entity) ==
    IF M.st # "ok" THEN M
    ELSE Logged(M, validateEntityBody([M EXCEPT !.evs = <<>>], q, entity), "validateEntity", q, entity, None, Now(M, entity))

matchEntitiesFrom(M, q, es, i) ==
    IF i > Len(es) THEN M ELSE matchEntitiesFrom(entityAdded(M, q, es[i]), q, es, i + 1)

matchEntities(M, q, es) == matchEntitiesFrom(M, q, es, 1)

Query_clear(M, q) == [M EXCEPT !.members[q] = <<>>]

(* ------------------------------ Engine -------------------------------- *)
\* this._queries.forEach(value => value.entityComponentAdded(entity, component, componentClass)),
\* from index i on; Entity emits (this, component), so componentClass is undefined
onComponentAdded(M, i, entity, component) ==
    IF M.st # "ok" \/ i > Len(M.queries) THEN M
    ELSE onComponentAdded(entityComponentAdded(M, M.queries[i], entity, component, None), i + 1, entity, component)

onComponentRemoved(M, i, entity, component) ==
    IF M.st # "ok" \/ i > Len(M.queries) THEN M
    ELSE onComponentRemoved(entityComponentRemoved(M, M.queries[i], entity, component, None), i + 1, entity, component)

onInvalidationRequested(M, i, entity) ==
    IF M.st # "ok" \/ i > Len(M.queries) THEN M
    ELSE onInvalidationRequested(validateEntity(M, M.queries[i], entity), i + 1, entity)

\* what a handler finds out through hasTag, get and iterate: the entity has
\* the tag, holds the instance in a slot, or has it in its list
Holds(M, e, x) ==
    IF isTag(x) THEN hasTag(M, e, x)
    ELSE IF isLinkedComponent(x)
         THEN hasComponent(M, e, "Damage") /\ M.ent[e].l # NoList /\ x \in Range(nodes(M, M.ent[e].l).seq)
    ELSE \E cls \in Classes : get(M, e, cls) = x

\* Entity.dispatchOnComponentAdded: the only handler of an entity's signals is the engine's router
\* this.onComponentAdded.emit(this, component), recorded for every entity but a query's helper
Emit(M, kind, e, x) ==
    IF e = HelperId THEN M
    ELSE [M EXCEPT !.sig = Append(@, [kind |-> kind, e |-> e, x |-> x]),
                   !.held = Append(@, Holds(M, e, x))]

dispatchOnComponentAdded(M, e, component) ==
    IF e \in M.connected
    THEN Invoke(Emit(M, "added", e, component), Call("onComponentAdded", e, component, None, 0, NoEntity))
    ELSE Emit(M, "added", e, component)

dispatchOnComponentRemoved(M, e, value) ==
    IF e \in M.connected
    THEN Invoke(Emit(M, "removed", e, value), Call("onComponentRemoved", e, value, None, 0, NoEntity))
    ELSE Emit(M, "removed", e, value)

\* Entity.invalidate
invalidate(M, e) ==
    IF e \in M.connected THEN onInvalidationRequested(M, 1, e) ELSE M

connectEntity(M, entity) ==
    [M EXCEPT !.connected = @ \cup {entity},
              !.esig[entity] = [added |-> Signal_connect(@.added, Router, PositiveInfinity),
                                removed |-> Signal_connect(@.removed, Router, PositiveInfinity),
                                invalidation |-> Signal_connect(@.invalidation, Router, NegativeInfinity)]]

disconnectEntity(M, entity) ==
    [M EXCEPT !.connected = @ \ {entity},
              !.esig[entity] = [added |-> Signal_disconnect(@.added, Router),
                                removed |-> Signal_disconnect(@.removed, Router),
                                invalidation |-> Signal_disconnect(@.invalidation, Router)]]

\* Signal.connect(handler) at the default priority: an already connected handler is not added again
connectQuery(M, query) ==
    IF query \in Range(M.wired) THEN M ELSE [M EXCEPT !.wired = Append(@, query)]

disconnectQuery(M, query) ==
    IF query \in Range(M.wired) THEN [M EXCEPT !.wired = Splice(@, IndexOf(@, query))] ELSE M

\* Engine.onEntityAdded.emit(entity): the handlers are query.entityAdded of the wired queries,
\* none of which connects or disconnects a handler, so hs is the list throughout the emit
emitOnEntityAdded(M, hs, i, entity) ==
    IF M.st # "ok" \/ i > Len(hs) THEN M
    ELSE emitOnEntityAdded(entityAdded(M, hs[i], entity), hs, i + 1, entity)

emitOnEntityRemoved(M, hs, i, entity) ==
    IF M.st # "ok" \/ i > Len(hs) THEN M
    ELSE emitOnEntityRemoved(entityRemoved(M, hs[i], entity), hs, i + 1, entity)

\* a handler the application connected to Engine.onEntityAdded / onEntityRemoved
\* before any query was added: it does nothing, or it takes the entity out
\* again, or it puts the entity back
onEntityAddedListener(M, entity) ==
    IF hook = "removeOnAdded" THEN Invoke(M, Call("removeEntity", entity, None, None, 0, NoEntity)) ELSE M

onEntityRemovedListener(M, entity) ==
    IF hook = "addOnRemoved" THEN Invoke(M, Call("addEntity", entity, None, None, 0, NoEntity)) ELSE M

\* this.onEntityAdded.emit(entity) / this.onEntityRemoved.emit(entity), recorded
EmitEngine(M, kind, entity) == [M EXCEPT !.eng = Append(@, [kind |-> kind, e |-> entity])]

addEntity(M, entity) ==
    IF M.st # "ok" \/ entity \in Range(M.entities) THEN M
    ELSE With(onEntityAddedListener(EmitEngine([M EXCEPT !.entities = Append(@, entity)], "added", entity), entity), LAMBDA M1 :
         connectEntity(emitOnEntityAdded(M1, M1.wired, 1, entity), entity))

removeEntity(M, entity) ==
    IF M.st # "ok" \/ entity \notin Range(M.entities) THEN M
    ELSE With(onEntityRemovedListener(EmitEngine([M EXCEPT !.entities = Splice(@, IndexOf(@, entity))], "removed", entity), entity), LAMBDA M1 :
         disconnectEntity(emitOnEntityRemoved(M1, M1.wired, 1, entity), entity))

\* Engine.removeEntities(...entity): entity.forEach(entity => this.removeEntity(entity)), from index i on
removeEntities(M, es, i) ==
    IF M.st # "ok" \/ i > Len(es) THEN M
    ELSE removeEntities(removeEntity(M, es[i]), es, i + 1)

\* the for-of loop of removeAllEntitiesInternal over the former entity array
removeAllEntitiesFrom(M, es, i, silently) ==
    IF M.st # "ok" \/ i > Len(es) THEN M
    ELSE IF silently THEN removeAllEntitiesFrom(disconnectEntity(M, es[i]), es, i + 1, silently)
    ELSE With(onEntityRemovedListener(EmitEngine(M, "removed", es[i]), es[i]), LAMBDA M1 :
         removeAllEntitiesFrom(disconnectEntity(emitOnEntityRemoved(M1, M1.wired, 1, es[i]), es[i]),
                               es, i + 1, silently))

removeAllEntitiesInternal(M, silently) ==
    removeAllEntitiesFrom([M EXCEPT !.entities = <<>>], M.entities, 1, silently)

removeAllEntities(M) == removeAllEntitiesInternal(M, FALSE)

removeAllQueriesFrom(M, qs, i) ==
    IF i > Len(qs) THEN M
    ELSE removeAllQueriesFrom(Query_clear(disconnectQuery(M, qs[i]), qs[i]), qs, i + 1)

removeAllQueries(M) == removeAllQueriesFrom([M EXCEPT !.queries = <<>>], M.queries, 1)

\* s with x put in front of its element i
InsertAt(s, i, x) ==
    [j \in 1..(Len(s) + 1) |-> IF j < i THEN s[j] ELSE IF j = i THEN x ELSE s[j - 1]]

\* this._systems.findIndex(value => value.priority > priority) + 1
FindAbove(M, priority) ==
    IF \E i \in DOMAIN M.systems : M.priorityOf[M.systems[i]] > priority
    THEN CHOOSE i \in DOMAIN M.systems :
            /\ M.priorityOf[M.systems[i]] > priority
            /\ \A j \in 1..(i - 1) : M.priorityOf[M.systems[j]] <= priority
    ELSE 0

\* System.setEngine (no handler is connected to the system's signals)
setEngine(M, system, defined) ==
    IF defined THEN [M EXCEPT !.hasEngine = @ \cup {system}] ELSE [M EXCEPT !.hasEngine = @ \ {system}]

\* System.onAddedToEngine does nothing; ReactionSystem.onAddedToEngine adds
\* the system's query to the engine (prepare is empty, and the handlers it
\* connects to the query's signals, entityAdded and entityRemoved, are empty)
onAddedToEngine(M, system) ==
    IF system = IterativeSystemId THEN addQuery(M, LoopedQuery) ELSE M

\* System.onRemovedFromEngine does nothing; IterativeSystem.onRemovedFromEngine
\* sets _removed and goes on with ReactionSystem.onRemovedFromEngine, which
\* reads this.engine (the getter throws once the engine was taken away)
onRemovedFromEngine(M, system) ==
    IF system # IterativeSystemId THEN M
    ELSE IF system \notin M.hasEngine THEN [M EXCEPT !.stopped = TRUE, !.st = "throw"]
    ELSE Query_clear(removeQuery([M EXCEPT !.stopped = TRUE], LoopedQuery), LoopedQuery)

\* Engine.addSystem
addSystem(M, system, priority) ==
    With([M EXCEPT !.priorityOf[system] = priority], LAMBDA M1 :
        LET index == FindAbove(M1, priority) IN
        onAddedToEngine(setEngine(IF M1.systems = <<>> THEN [M1 EXCEPT !.systems = <<system>>]
                                  ELSE IF index = 0 THEN [M1 EXCEPT !.systems = Append(@, system)]
                                  ELSE [M1 EXCEPT !.systems = InsertAt(@, index, system)],
                                  system, TRUE),
                        system))

\* Engine.removeSystem
removeSystem(M, system) ==
    LET index == IndexOf(M.systems, system) IN
    IF index = 0 THEN M
    ELSE With(onRemovedFromEngine([M EXCEPT !.systems = Splice(@, index)], system), LAMBDA M1 :
        IF M1.st # "ok" THEN M1 ELSE setEngine(M1, system, FALSE))

\* the loop of removeAllSystems over the array it took out of the engine
removeAllSystemsFrom(M, taken, i) ==
    IF M.st # "ok" \/ i > Len(taken) THEN M
    ELSE removeAllSystemsFrom(onRemovedFromEngine(M, taken[i]), taken, i + 1)

\* Engine.removeAllSystems
removeAllSystems(M) == removeAllSystemsFrom([M EXCEPT !.systems = <<>>], M.systems, 1)

\* the getters System.engine and System.sharedConfig, and System.dispatch
\* (no subscription is reached): how the call ends
System_engine(M, system) == IF system \notin M.hasEngine THEN "throw" ELSE "ok"
System_sharedConfig(M, system) == IF system \notin M.hasEngine THEN "throw" ELSE "ok"
System_dispatch(M, system) == IF system \notin M.hasEngine THEN "throw" ELSE System_engine(M, system)

\* variant of clear that removes the entities the way removeAllEntities does
Engine_clear_NotSilently(M) == removeAllQueries(removeAllSystems(removeAllEntitiesInternal(M, FALSE)))

Engine_clear(M) == removeAllQueries(removeAllSystems(removeAllEntitiesInternal(M, TRUE)))

addQuery(M, query) ==
    LET M1 == matchEntities(connectQuery(M, query), query, M.entities) IN
    [M1 EXCEPT !.queries = Append(@, query)]

removeQuery(M, query) ==
    LET index == IndexOf(M.queries, query) IN
    IF index = 0 THEN M
    ELSE Query_clear(disconnectQuery([M EXCEPT !.queries = Splice(@, index)], query), query)

(* ------------------------------ update -------------------------------- *)
\* what the systems do when the engine updates them: the plain system
\* `remover` calls engine.removeSystem(target) in its update, and the
\* iterative system's updateEntity removes the looped tag from the entity it
\* is given when `drop` is set

\* the application's updateEntity
updateEntity(M, entity, drop) ==
    IF drop THEN remove(M, entity, LoopedTag) ELSE M

\* IterativeSystem.updateEntities: the for-of loop reads this.query.entities
\* by position, one position further after every entity, and ends when the
\* position is past the end of the array as it is then
updateEntities(M, i, drop) ==
    IF M.st # "ok" \/ i > Len(M.members[LoopedQuery]) THEN M
    ELSE IF M.stopped THEN M
    ELSE With(M.members[LoopedQuery][i], LAMBDA entity :
        updateEntities(updateEntity([M EXCEPT !.visited = Append(@, entity)], entity, drop), i + 1, drop))

\* system.update(dt, frameDelta)
System_update(M, system, deed) ==
    IF system = IterativeSystemId THEN updateEntities(M, 1, deed.drop)
    ELSE IF system = deed.remover THEN removeSystem(M, deed.target)
    ELSE M

\* the for-of loop of Engine.update over this._systems, read by position (no
\* handler is connected to signalBeforeUpdate)
Engine_updateFrom(M, i, deed) ==
    IF M.st # "ok" \/ i > Len(M.systems) THEN M
    ELSE With(M.systems[i], LAMBDA system :
        Engine_updateFrom(System_update([M EXCEPT !.upd = Append(@, system)], system, deed), i + 1, deed))

\* Engine.update
Engine_update(M, deed) == Engine_updateFrom(M, 1, deed)

(* --------------------------- public calls ----------------------------- *)
\* a method call: a public method of Entity or Engine, or a handler the
\* engine connected to an entity's signal
Invoke(M, call) ==
    CASE call.op = "add" -> add(M, call.e, call.x, call.rc)
      [] call.op = "append" -> append(M, call.e, call.x, call.rc)
      [] call.op = "remove" -> remove(M, call.e, call.x)
      [] call.op = "withdraw" -> withdraw(M, call.e, call.x)
      [] call.op = "pick" -> pick(M, call.e, call.x, call.rc)
      [] call.op = "invalidate" -> invalidate(M, call.e)
      [] call.op = "iterate" -> iterate(M, call.e, call.x)
      [] call.op = "clear" -> clear(M, call.e)
      [] call.op = "copyFrom" -> copyFrom(M, call.e, call.o)
      [] call.op = "addEntity" -> addEntity(M, call.e)
      [] call.op = "removeEntity" -> removeEntity(M, call.e)
      [] call.op = "addQuery" -> addQuery(M, call.q)
      [] call.op = "removeQuery" -> removeQuery(M, call.q)
      [] call.op = "removeEntities" -> removeEntities(M, <<call.e, call.o>>, 1)
      [] call.op = "removeAllEntities" -> removeAllEntities(M)
      [] call.op = "clearEngine" -> Engine_clear(M)
      [] call.op = "onComponentAdded" -> onComponentAdded(M, 1, call.e, call.x)
      [] call.op = "onComponentRemoved" -> onComponentRemoved(M, 1, call.e, call.x)
      [] call.op = "addSystem" -> addSystem(M, call.x, call.q)
      [] call.op = "removeSystem" -> removeSystem(M, call.x)
      [] call.op = "update" -> Engine_update(M, [remover |-> call.x, target |-> call.rc, drop |-> call.q = 1])

\* the state a call leaves behind; a call that never returns leaves none.
\* List objects no entity refers to any more are unreachable and dropped.
Commit(M, call) ==
    /\ ops < limit
    /\ resolved' = IF call.op = "add" /\ call.rc # None THEN resolved \cup {call.e}
                   ELSE IF call.op = "copyFrom" /\ call.o \in resolved THEN resolved \cup {call.e}
                   ELSE resolved
    /\ M.st # "hang"
    /\ ent' = [i \in EntityIds |-> M.ent[i]]
    /\ lhead' = [L \in ListIds |-> IF \E i \in EntityIds : M.ent[i].l = L THEN M.lhead[L] ELSE None]
    /\ nxt' = M.nxt
    /\ entities' = M.entities
    /\ connected' = M.connected
    /\ esig' = M.esig
    /\ systems' = M.systems
    /\ hasEngine' = M.hasEngine
    /\ priorityOf' = M.priorityOf
    /\ sysAdded' = IF call.op = "clearEngine" THEN <<>>
                   ELSE IF call.op = "addSystem" THEN Append(SelectSeq(sysAdded, LAMBDA z : z # call.x), call.x)
                   ELSE SelectSeq(sysAdded, LAMBDA z : z \in Range(M.systems))
    /\ engsigs' = M.eng
    /\ wasIn' = IF call.op = "clearEngine"
                THEN [entities |-> entities, systems |-> systems, queries |-> queries, members |-> members]
                ELSE wasIn
    /\ queries' = M.queries
    /\ wired' = M.wired
    /\ members' = M.members
    /\ snap' = M.snap
    /\ log' = M.log
    /\ last' = [call |-> call, st |-> M.st, ret |-> M.ret]
    /\ silent' = IF call.op \in {"clear", "copyFrom"} THEN silent \cup {call.e} ELSE silent
    /\ qstate' = IF call.op = "addQuery" THEN [qstate EXCEPT ![call.q] = "added"]
                 ELSE IF call.op = "removeQuery" /\ call.q \in Range(queries) THEN [qstate EXCEPT ![call.q] = "removed"]
                 ELSE IF call.op = "clearEngine"
                      THEN [q \in Queries |-> IF q \in Range(queries) THEN "removed" ELSE qstate[q]]
                 ELSE qstate
    /\ dup' = IF call.op = "addQuery" /\ call.q \in Range(queries) THEN dup \cup {call.q} ELSE dup
    /\ ops' = ops + 1
    /\ sigs' = M.sig
    /\ sigheld' = M.held
    /\ seen' = M.seen
    /\ updated' = IF call.op = "update" THEN M.upd ELSE updated
    /\ visited' = M.visited
    /\ stopped' = M.stopped
    /\ UNCHANGED <<pred, subscribed, hook, limit, created, handlers, registered, invoked, sigcall, throwers,
                   subscriptions, received>>

\* one public call on the application's objects; the record of the call is
\* built anew for every call made, from the fields of the one the action names
Perform(c) ==
    LET call == Call(c.op, c.e, c.x, c.rc, c.q, c.o) IN Commit(Invoke(Heap, call), call)

\* An application with a query over the linked type works with the linked
\* instances and the tag, any other with the plain instances and the tag.
UsesLinked == created \subseteq LinkedInst
Instances == created
ComponentClass == IF UsesLinked THEN "Damage" ELSE "Position"
\* the resolveClass passed with a component: an instance of Sub is stored as
\* a Position (its ancestor), every other instance under its own class
ResolveClassOf(c) == IF ClassOf(c) = "Sub" THEN "Position" ELSE None
\* the instances handed to pick: every linked one, one plain one and the resolved one
Pickable == IF UsesLinked THEN created ELSE {"p1", "s1"}

\* the objects after construction; the engine's sharedConfig is connected
\* to the engine from the start (Engine constructor)
Constructed ==
    /\ ent = [i \in EntityIds |-> EmptyEntity]
    /\ lhead = [L \in ListIds |-> None]
    /\ nxt = [d \in LinkedInst |-> None]
    /\ entities = <<>>
    /\ connected = {SharedConfig}
    /\ esig = [e \in EntityIds |-> IF e = SharedConfig
                                   THEN connectEntity([connected |-> {}, esig |-> [x \in EntityIds |-> NoHandlers]], e).esig[e]
                                   ELSE NoHandlers]
    /\ queries = <<>>
    /\ wired = <<>>
    /\ members = [q \in Queries |-> <<>>]
    /\ snap = [q \in Queries |-> EmptySnapshot]
    /\ pred \in [Queries -> PredKinds \cup OwnClassKinds]
    /\ subscribed \in SUBSET Queries
    /\ log = <<>>
    /\ resolved = {}
    /\ silent = {}
    /\ qstate = [q \in Queries |-> "new"]
    /\ dup = {}
    /\ last = [call |-> Call("new", NoEntity, None, None, 0, NoEntity), st |-> "ok", ret |-> None]
    /\ ops = 0
    /\ sigs = <<>>
    /\ sigheld = <<>>
    /\ seen = <<>>
    /\ handlers = <<>>
    /\ registered = <<>>
    /\ invoked = <<>>
    /\ sigcall = [op |-> "new", handler |-> None, priority |-> 0, was |-> FALSE, st |-> "ok"]
    /\ systems = <<>>
    /\ hasEngine = {}
    /\ priorityOf = [s \in AllSystems |-> 0]
    /\ sysAdded = <<>>
    /\ updated = <<>>
    /\ visited = <<>>
    /\ stopped = FALSE
    /\ engsigs = <<>>
    /\ subscriptions = <<>>
    /\ received = <<>>
    /\ wasIn = [entities |-> <<>>, systems |-> <<>>, queries |-> <<>>, members |-> [q \in Queries |-> <<>>]]

Hooks == {"none", "removeOnAdded", "addOnRemoved"}

\* an application without a listener on the engine's entity signals
Init ==
    /\ Constructed
    /\ throwers = {}
    /\ \A q \in Queries : pred[q] \in PredKinds
    /\ hook = "none"
    /\ limit = MaxOps
    /\ created = IF \E q \in Queries : pred[q] \in LinkedKinds THEN {"d1", "d2"} ELSE NonLinkedInst

Add ==
    \E e \in EntityIds, x \in Tags \cup Instances :
        LET rc == IF isTag(x) THEN None ELSE ResolveClassOf(x) IN
        Perform(Call("add", e, x, rc, 0, NoEntity))

AppendLinked ==
    \E e \in EntityIds, c \in created :
        /\ UsesLinked
        /\ Perform(Call("append", e, c, None, 0, NoEntity))

Remove ==
    \E e \in EntityIds, x \in Tags \cup {ComponentClass} :
        Perform(Call("remove", e, x, None, 0, NoEntity))

Withdraw ==
    \E e \in EntityIds :
        Perform(Call("withdraw", e, ComponentClass, None, 0, NoEntity))

Pick ==
    \E e \in EntityIds, c \in Pickable :
        Perform(Call("pick", e, c, ResolveClassOf(c), 0, NoEntity))

Invalidate ==
    \E e \in EntityIds :
        Perform(Call("invalidate", e, None, None, 0, NoEntity))

Clear ==
    \E e \in EntityIds :
        Perform(Call("clear", e, None, None, 0, NoEntity))

CopyFrom ==
    \E e \in EntityIds :
        \E other \in EntityIds \ {e} :
            Perform(Call("copyFrom", e, None, None, 0, other))

AddEntity ==
    \E e \in EntityIds :
        Perform(Call("addEntity", e, None, None, 0, NoEntity))

RemoveEntity ==
    \E e \in EntityIds :
        Perform(Call("removeEntity", e, None, None, 0, NoEntity))

AddQuery ==
    \E q \in Queries :
        /\ Len(SelectSeq(queries, LAMBDA z : z = q)) < MaxQueryAdds
        /\ Perform(Call("addQuery", NoEntity, None, None, q, NoEntity))

RemoveQuery ==
    \E q \in Queries :
        Perform(Call("removeQuery", NoEntity, None, None, q, NoEntity))

PickRules == {"none", "all", "all but d1", "all but d2", "all but d3"} \cup LinkedInst

Iterate ==
    \E e \in EntityIds, rule \in PickRules :
        /\ UsesLinked
        /\ Perform(Call("iterate", e, rule, None, 0, NoEntity))

\* engine.removeEntities(e, other)
RemoveEntities ==
    \E e \in EntityIds, other \in EntityIds :
        Perform(Call("removeEntities", e, None, None, 0, other))

RemoveAllEntities ==
    Perform(Call("removeAllEntities", NoEntity, None, None, 0, NoEntity))

ClearEngine ==
    Perform(Call("clearEngine", NoEntity, None, None, 0, NoEntity))

Next ==
    \/ Add
    \/ AppendLinked
    \/ Remove
    \/ Withdraw
    \/ Pick
    \/ Invalidate
    \/ Clear
    \/ CopyFrom
    \/ AddEntity
    \/ RemoveEntity
    \/ AddQuery
    \/ RemoveQuery

Spec == Init /\ [][Next]_vars

\* an application whose query asks for the subclass Sub, or for the linked type
ShadowInit ==
    /\ Constructed
    /\ throwers = {}
    /\ \A q \in Queries : pred[q] \in OwnClassKinds \cup {"containsDamage"}
    /\ hook = "none"
    /\ limit = MaxOps
    /\ created = IF \E q \in Queries : pred[q] \in LinkedKinds THEN {"d1", "d2"} ELSE NonLinkedInst

ShadowSpec == ShadowInit /\ [][Next]_vars

\* an application with a listener on the engine's entity signals that calls
\* back into the engine
EngineInit ==
    /\ Constructed
    /\ throwers = {}
    /\ pred[1] \in {"hasEnemy", "notAll"}
    /\ hook \in Hooks
    /\ limit = MaxOps
    /\ created = NonLinkedInst

EngineNext ==
    \/ Add
    \/ Remove
    \/ AddEntity
    \/ RemoveEntity
    \/ RemoveEntities
    \/ RemoveAllEntities
    \/ ClearEngine
    \/ AddQuery

EngineSpec == EngineInit /\ [][EngineNext]_vars

\* two entities outside any query, worked on with plain components and the
\* tag, or with three linked components and the tag
EntityInit ==
    /\ Constructed
    /\ throwers = {}
    /\ pred[1] = "hasEnemy"
    /\ subscribed = {}
    /\ hook = "none"
    /\ limit = MaxEntityOps
    /\ created \in {NonLinkedInst, LinkedInst}

EntityNext ==
    \/ Add
    \/ AppendLinked
    \/ Remove
    \/ Withdraw
    \/ Pick
    \/ Iterate

EntitySpec == EntityInit /\ [][EntityNext]_vars

\* one Signal and three handler functions, worked on through connect,
\* disconnect and emit
SignalInit ==
    /\ Constructed
    /\ throwers = {}
    /\ pred[1] = "hasEnemy"
    /\ subscribed = {}
    /\ hook = "none"
    /\ limit = MaxSignalOps
    /\ created = NonLinkedInst

Engaged == <<ent, lhead, nxt, entities, connected, queries, wired, members, snap, pred, subscribed,
             log, last, resolved, silent, qstate, dup, hook, sigs, limit, created, seen, throwers, esig,
             SystemVars, engsigs, SubscriptionVars, sigheld, LoopVars>>

Connect ==
    \E handler \in Handlers, priority \in Priorities :
        /\ ops < limit
        /\ handlers' = Signal_connect(handlers, handler, priority)
        /\ registered' = IF FindHandler(handlers, handler) # 0 THEN registered ELSE Append(registered, handler)
        /\ sigcall' = [op |-> "connect", handler |-> handler, priority |-> priority,
                       was |-> FindHandler(handlers, handler) # 0, st |-> "ok"]
        /\ ops' = ops + 1
        /\ UNCHANGED <<invoked, Engaged>>

Disconnect ==
    \E handler \in Handlers :
        /\ ops < limit
        /\ handlers' = Signal_disconnect(handlers, handler)
        /\ registered' = SelectSeq(registered, LAMBDA h : h # handler)
        /\ sigcall' = [op |-> "disconnect", handler |-> handler, priority |-> 0,
                       was |-> FindHandler(handlers, handler) # 0, st |-> "ok"]
        /\ ops' = ops + 1
        /\ UNCHANGED <<invoked, Engaged>>

EmitSignal ==
    /\ ops < limit
    /\ invoked' = Signal_emit(handlers, throwers).invoked
    /\ sigcall' = [op |-> "emit", handler |-> None, priority |-> 0, was |-> FALSE,
                   st |-> Signal_emit(handlers, throwers).st]
    /\ ops' = ops + 1
    /\ UNCHANGED <<handlers, registered, Engaged>>

SignalNext ==
    \/ Connect
    \/ Disconnect
    \/ EmitSignal

SignalSpec == SignalInit /\ [][SignalNext]_vars

\* signal.emit() while the handler `actor` disconnects or connects a handler
\* of the same signal when it is called
EmitReentrant ==
    \E actor \in Handlers, kind \in Deeds \ {"none"}, target \in Handlers, priority \in Priorities :
        LET deed == [actor |-> actor, kind |-> kind, target |-> target, priority |-> priority] IN
        /\ ops < limit
        /\ FindHandler(handlers, actor) # 0
        /\ With(Signal_emitFrom(handlers, 1, <<>>, deed, throwers), LAMBDA r :
            /\ handlers' = r.handlers
            /\ invoked' = r.invoked
            /\ registered' = With(SelectSeq(registered, LAMBDA h : FindHandler(r.handlers, h) # 0),
                                  LAMBDA kept : IF FindHandler(r.handlers, target) # 0 /\ target \notin Range(kept)
                                                THEN Append(kept, target) ELSE kept)
            /\ sigcall' = [op |-> "emit", handler |-> actor, priority |-> priority,
                           was |-> kind = "disconnect", st |-> r.st])
        /\ ops' = ops + 1
        /\ UNCHANGED Engaged

\* one Signal whose handlers may connect and disconnect handlers while it emits
ReentrantNext ==
    \/ Connect
    \/ Disconnect
    \/ EmitReentrant

ReentrantSpec == SignalInit /\ [][ReentrantNext]_vars

\* entity.onComponentAdded.connect(handler, priority), and the same on the
\* entity's other two signals, called by the application
ConnectHandler ==
    \E e \in EntityIds \ {SharedConfig}, name \in SignalNames, handler \in UserHandlers, priority \in UserPriorities :
        /\ ops < limit
        /\ esig' = [esig EXCEPT ![e][name] = Signal_connect(@, handler, priority)]
        /\ last' = [call |-> Call("connect", e, handler, None, 0, NoEntity), st |-> "ok", ret |-> None]
        /\ ops' = ops + 1
        /\ log' = <<>> /\ sigs' = <<>> /\ sigheld' = <<>> /\ seen' = <<>> /\ engsigs' = <<>>
        /\ UNCHANGED <<ent, lhead, nxt, entities, connected, queries, wired, members, snap, pred, subscribed,
                       resolved, silent, qstate, dup, hook, limit, created,
                       handlers, registered, invoked, sigcall, throwers, SystemVars, SubscriptionVars, LoopVars>>

DisconnectHandler ==
    \E e \in EntityIds \ {SharedConfig}, name \in SignalNames, handler \in UserHandlers :
        /\ ops < limit
        /\ esig' = [esig EXCEPT ![e][name] = Signal_disconnect(@, handler)]
        /\ last' = [call |-> Call("disconnect", e, handler, None, 0, NoEntity), st |-> "ok", ret |-> None]
        /\ ops' = ops + 1
        /\ log' = <<>> /\ sigs' = <<>> /\ sigheld' = <<>> /\ seen' = <<>> /\ engsigs' = <<>>
        /\ UNCHANGED <<ent, lhead, nxt, entities, connected, queries, wired, members, snap, pred, subscribed,
                       resolved, silent, qstate, dup, hook, limit, created,
                       handlers, registered, invoked, sigcall, throwers, SystemVars, SubscriptionVars, LoopVars>>

\* an engine and an entity to whose signals the application connects
\* handlers of its own, before or after the entity is added to the engine
RouterInit ==
    /\ Constructed
    /\ throwers = {}
    /\ pred[1] = "hasEnemy"
    /\ subscribed = {}
    /\ hook = "none"
    /\ limit = MaxOps
    /\ created = NonLinkedInst

RouterNext ==
    \/ ConnectHandler
    \/ DisconnectHandler
    \/ AddEntity
    \/ RemoveEntity

RouterSpec == RouterInit /\ [][RouterNext]_vars

\* the state a call on the engine's systems leaves behind
SystemCommit(M, op, system, added) ==
    /\ ops < limit
    /\ systems' = M.systems
    /\ hasEngine' = M.hasEngine
    /\ priorityOf' = M.priorityOf
    /\ sysAdded' = added
    /\ last' = [call |-> Call(op, NoEntity, system, None, 0, NoEntity), st |-> M.st, ret |-> None]
    /\ ops' = ops + 1
    /\ log' = <<>> /\ sigs' = <<>> /\ sigheld' = <<>> /\ seen' = <<>> /\ engsigs' = <<>>
    /\ UNCHANGED <<ent, lhead, nxt, entities, connected, queries, wired, members, snap, pred, subscribed,
                   resolved, silent, qstate, dup, hook, limit, created,
                   handlers, registered, invoked, sigcall, throwers, esig, updated, SubscriptionVars, LoopVars>>

AddSystem ==
    \E system \in SystemIds, priority \in SystemPriorities :
        SystemCommit(addSystem(Heap, system, priority), "addSystem", system,
                     Append(SelectSeq(sysAdded, LAMBDA z : z # system), system))

RemoveSystem ==
    \E system \in SystemIds :
        SystemCommit(removeSystem(Heap, system), "removeSystem", system,
                     IF system \in Range(systems) /\ system \notin Range(removeSystem(Heap, system).systems)
                     THEN SelectSeq(sysAdded, LAMBDA z : z # system) ELSE sysAdded)

RemoveAllSystems ==
    SystemCommit(removeAllSystems(Heap), "removeAllSystems", None, <<>>)

UpdateKinds == {"update", "updateFixed", "updateLate", "updateRender"}

\* Engine.update / updateFixed / updateLate / updateRender: the for-of loop
\* over this._systems; the systems' own update methods do nothing
Update ==
    \E kind \in UpdateKinds :
        /\ ops < limit
        /\ updated' = systems
        /\ last' = [call |-> Call(kind, NoEntity, None, None, 0, NoEntity), st |-> "ok", ret |-> None]
        /\ ops' = ops + 1
        /\ log' = <<>> /\ sigs' = <<>> /\ sigheld' = <<>> /\ seen' = <<>> /\ engsigs' = <<>>
        /\ UNCHANGED <<ent, lhead, nxt, entities, connected, queries, wired, members, snap, pred, subscribed,
                       resolved, silent, qstate, dup, hook, limit, created,
                       handlers, registered, invoked, sigcall, throwers, esig,
                       systems, hasEngine, priorityOf, sysAdded, SubscriptionVars, LoopVars>>

\* an engine and three systems, added with priorities and removed
SystemInit ==
    /\ Constructed
    /\ throwers = {}
    /\ pred[1] = "hasEnemy"
    /\ subscribed = {}
    /\ hook = "none"
    /\ limit = MaxSystemOps
    /\ created = NonLinkedInst

SystemNext ==
    \/ AddSystem
    \/ RemoveSystem
    \/ RemoveAllSystems
    \/ ClearEngine
    \/ Update

SystemSpec == SystemInit /\ [][SystemNext]_vars

\* engine.addSystem(system) of a plain or of the iterative system, with the default priority
AttachSystem ==
    \E system \in {"A", "B", IterativeSystemId} :
        Perform(Call("addSystem", NoEntity, system, None, 0, NoEntity))

\* engine.removeSystem(system) between two updates
DetachSystem ==
    \E system \in {"A", "B", IterativeSystemId} :
        Perform(Call("removeSystem", NoEntity, system, None, 0, NoEntity))

\* entity.add(tag) with the tag the iterative system's query asks for
AddTag ==
    \E e \in EntityIds :
        Perform(Call("add", e, LoopedTag, None, 0, NoEntity))

\* engine.update(dt): no system touches the engine or the entities, or system
\* A removes a system in its update, or updateEntity removes the tag
UpdateLoop ==
    \E remover \in {None, "A"}, target \in {"A", "B", IterativeSystemId}, drop \in 0..1 :
        /\ remover = None => target = "A"
        /\ Perform(Call("update", NoEntity, remover, IF remover = None THEN None ELSE target, drop, NoEntity))

\* an engine with two plain systems and an iterative system over the query
\* of the tagged entities, whose listeners on the query do nothing
LoopInit ==
    /\ Constructed
    /\ throwers = {}
    /\ pred[LoopedQuery] = "hasEnemy"
    /\ subscribed = {}
    /\ hook = "none"
    /\ limit = MaxLoopOps
    /\ created = NonLinkedInst

LoopNext ==
    \/ AttachSystem
    \/ DetachSystem
    \/ AddTag
    \/ AddEntity
    \/ UpdateLoop

LoopSpec == LoopInit /\ [][LoopNext]_vars

\* the state a call on the engine's message channel leaves behind
SubscriptionCommit(subs, delivered, op, x, handler) ==
    /\ ops < limit
    /\ subscriptions' = subs
    /\ received' = delivered
    /\ wasIn' = wasIn
    /\ last' = [call |-> Call(op, NoEntity, x, handler, 0, NoEntity), st |-> "ok", ret |-> None]
    /\ ops' = ops + 1
    /\ log' = <<>> /\ sigs' = <<>> /\ sigheld' = <<>> /\ seen' = <<>> /\ engsigs' = <<>>
    /\ UNCHANGED <<ent, lhead, nxt, entities, connected, queries, wired, members, snap, pred, subscribed,
                   resolved, silent, qstate, dup, hook, limit, created,
                   handlers, registered, invoked, sigcall, throwers, esig, SystemVars, LoopVars>>

\* engine.subscribe(messageType, handler)
Subscribe ==
    \E messageType \in MessageTypes, handler \in MessageHandlers :
        SubscriptionCommit(addSubscription(subscriptions, messageType, handler), received,
                           "subscribe", messageType, handler)

\* engine.unsubscribe(messageType, handler) and engine.unsubscribe(messageType)
Unsubscribe ==
    \E messageType \in MessageTypes, handler \in MessageHandlers \cup {None} :
        SubscriptionCommit(removeSubscription(subscriptions, messageType, handler), received,
                           "unsubscribe", messageType, handler)

\* engine.dispatch(message), also reached through system.dispatch(message)
Dispatch ==
    \E message \in Messages :
        SubscriptionCommit(subscriptions, Engine_dispatch(subscriptions, message),
                           "dispatch", message, None)

\* an engine whose message channel the application subscribes to and dispatches on
SubscriptionInit ==
    /\ Constructed
    /\ throwers = {}
    /\ pred[1] = "hasEnemy"
    /\ subscribed = {}
    /\ hook = "none"
    /\ limit = MaxSubscriptionOps
    /\ created = NonLinkedInst

SubscriptionNext ==
    \/ Subscribe
    \/ Unsubscribe
    \/ Dispatch

SubscriptionSpec == SubscriptionInit /\ [][SubscriptionNext]_vars

\* an engine with entities, a query and systems, with or without a listener
\* on the engine's entity signals, that is cleared
ClearInit ==
    /\ Constructed
    /\ throwers = {}
    /\ pred[1] \in {"hasEnemy", "notAll"}
    /\ hook \in Hooks
    /\ limit = MaxOps
    /\ created = NonLinkedInst

ClearNext ==
    \/ AddEntity
    \/ RemoveEntity
    \/ AddQuery
    \/ AddSystem
    \/ ClearEngine

ClearSpec == ClearInit /\ [][ClearNext]_vars

\* the same Signal with handler functions some of which throw
ThrowingInit ==
    /\ Constructed
    /\ throwers \in SUBSET Handlers
    /\ pred[1] = "hasEnemy"
    /\ subscribed = {}
    /\ hook = "none"
    /\ limit = MaxSignalOps
    /\ created = NonLinkedInst

ThrowingSpec == ThrowingInit /\ [][SignalNext]_vars

(* ----------------------------- properties ----------------------------- *)
\* Query.has(entity)
QueryHas(q, e) == e \in Range(members[q])
\* the query's predicate on the entity as it is
Satisfies(q, e) == predicate(pred[q], Heap, e)
\* the query is in Engine._queries
Attached(q) == q \in Range(queries)
\* the entity is in Engine.entities
InEngine(e) == e \in Range(entities)
\* ReadonlyEntity.has on the previous / current side of an emitted snapshot
PrevHas(ev, X) == IF isTag(X) THEN X \in ev.pt ELSE ev.pc[X] # None
CurHas(ev, X) == IF isTag(X) THEN X \in ev.ct ELSE ev.cc[X] # None
\* the type under which the components c hold the instance or tag x
HeldAs(c, x) ==
    IF isTag(x) THEN x
    ELSE IF \E cls \in Classes : c[cls] = x THEN CHOOSE cls \in Classes : c[cls] = x
    ELSE ClassOf(x)
\* the calls on the query of the last operation
Calls == {log[i] : i \in DOMAIN log}
ComponentHandlers == {"entityComponentAdded", "entityComponentRemoved"}
FieldOps == {"add", "remove", "append", "withdraw", "pick"}

\* C1: for every entity of the engine and every query attached to it, after
\* any sequence of add / remove / append / withdraw / pick calls (and of
\* engine calls, but no clear or copyFrom), q.has(e) equals predicate(e),
\* whatever pure predicate the query has.
C1_MembershipEqualsPredicate ==
    \A q \in Queries, e \in EntityIds :
        (Attached(q) /\ q \notin dup /\ InEngine(e) /\ e \notin silent)
            => (QueryHas(q, e) <=> Satisfies(q, e))

\* the component types and tags listed in QueryBuilder.contains(...)
Listed(q, e) ==
    CASE pred[q] = "contains" -> ent[e].c["Position"] # None /\ "enemy" \in ent[e].t
      [] pred[q] = "containsDamage" -> ent[e].c["Damage"] # None
      [] OTHER -> FALSE

C3_PreviousIsStateBefore ==
    \A r \in Calls :
        \A j \in DOMAIN r.evs : r.evs[j].pc = r.bc /\ r.evs[j].pt = r.bt

\* C4: when removing X from an entity makes a predicate "does not have all of
\* ..." true, the query admits the entity and emits exactly one onEntityAdded,
\* whose snapshot has previous.has(X) true and current.has(X) false.
C4_RemovalAdmits ==
    \A r \in Calls :
        (r.fn = "entityComponentRemoved" /\ pred[r.q] = "notAll"
            /\ r.e \notin Range(r.before) /\ ~r.was /\ r.now)
            => /\ r.e \in Range(r.after)
               /\ r.q \in subscribed =>
                    /\ Len(r.evs) = 1
                    /\ r.evs[1].kind = "added"
                    /\ PrevHas(r.evs[1], HeldAs(r.bc, r.x))
                    /\ ~CurHas(r.evs[1], HeldAs(r.bc, r.x))

\* C5: when adding a component or tag makes an entity satisfy the predicate
\* it did not satisfy before, the query admits it and emits exactly one
\* onEntityAdded, whose previous state lacks what was added and whose current
\* state has it.
C5_AdditionAdmits ==
    \A r \in Calls :
        (r.fn = "entityComponentAdded" /\ r.e \notin Range(r.before) /\ ~r.was /\ r.now)
            => /\ r.e \in Range(r.after)
               /\ r.q \in subscribed =>
                    /\ Len(r.evs) = 1
                    /\ r.evs[1].kind = "added"
                    /\ ~PrevHas(r.evs[1], HeldAs(r.ac, r.x))
                    /\ CurHas(r.evs[1], HeldAs(r.ac, r.x))

\* what one handler call may do to the membership and emit
Unchanged(r) == r.after = r.before /\ r.evs = <<>>
AdmittedOne(r) ==
    /\ r.e \notin Range(r.before)
    /\ r.after = Append(r.before, r.e)
    /\ IF r.q \in subscribed
       THEN Len(r.evs) = 1 /\ r.evs[1].kind = "added" /\ r.evs[1].cur = r.e
       ELSE r.evs = <<>>
EvictedOne(r) ==
    /\ r.e \in Range(r.before)
    /\ r.after = Splice(r.before, IndexOf(r.before, r.e))
    /\ IF r.q \in subscribed
       THEN Len(r.evs) = 1 /\ r.evs[1].kind = "removed" /\ r.evs[1].cur = r.e
       ELSE r.evs = <<>>

\* C6: every call of entityAdded, entityRemoved, entityComponentAdded,
\* entityComponentRemoved and validateEntity changes the membership by at most
\* the one entity it is about and emits at most one event, and emits (to a
\* listener) exactly when the membership changed; adding the tag "enemy" under
\* the predicate has("enemy") takes the query from no member to one.
C6_OneEntityOneEvent ==
    \A r \in Calls :
        /\ Unchanged(r) \/ AdmittedOne(r) \/ EvictedOne(r)
        /\ (pred[r.q] = "hasEnemy" /\ r.fn = "entityComponentAdded" /\ r.x = "enemy" /\ r.before = <<>>)
            => r.after = <<r.e>>
        /\ (pred[r.q] = "hasEnemy" /\ r.fn = "entityComponentRemoved" /\ r.x = "enemy" /\ r.before = <<r.e>>)
            => r.after = <<>>

\* C6 witness: removing the tag "enemy" has just taken a listened-to
\* has("enemy") query from one member back to none with one onEntityRemoved
C6_Witness ==
    \E r \in Calls :
        /\ pred[r.q] = "hasEnemy" /\ r.q \in subscribed
        /\ r.fn = "entityComponentRemoved" /\ r.x = "enemy"
        /\ r.before = <<r.e>> /\ r.after = <<>>
        /\ Len(r.evs) = 1 /\ r.evs[1].kind = "removed"

\* C7: after entity.invalidate() on an entity the engine listens to, every
\* query of the engine has q.has(e) = predicate(e), whatever the membership
\* was before, and validateEntity emitted one event exactly when it changed.
C7_InvalidateResyncs ==
    (last.call.op = "invalidate" /\ last.call.e \in connected)
        => /\ \A q \in Range(queries) : QueryHas(q, last.call.e) <=> Satisfies(q, last.call.e)
           /\ \A q \in Range(queries) : \E r \in Calls : r.fn = "validateEntity" /\ r.q = q /\ r.e = last.call.e
           /\ \A r \in Calls :
                r.fn = "validateEntity" =>
                    /\ Len(r.evs) <= 1
                    /\ r.q \in subscribed => (Len(r.evs) = 1 <=> r.after # r.before)

\* C7 witness: invalidate has just evicted, with one event, an entity that
\* was a member although it did not satisfy the predicate
C7_Witness ==
    /\ last.call.op = "invalidate" /\ last.call.e \in connected
    /\ \E r \in Calls :
        /\ r.fn = "validateEntity" /\ r.e = last.call.e /\ r.q \in subscribed
        /\ r.e \in Range(r.before) /\ r.e \notin Range(r.after)
        /\ Len(r.evs) = 1
        /\ ~Satisfies(r.q, r.e)

\* C8: the membership equals the predicate after every public mutation of an
\* entity of the engine; stated for the two mutations the claim singles out,
\* clear() and copyFrom(other), on an entity that agreed with the query before.
C8_ClearAndCopyKeepMembership ==
    [][\A q \in Queries, e \in EntityIds :
        (last'.call.op \in {"clear", "copyFrom"} /\ last'.call.e = e
            /\ Attached(q) /\ InEngine(e) /\ (QueryHas(q, e) <=> Satisfies(q, e)))
            => (QueryHas(q, e) <=> Satisfies(q, e))']_vars

\* C9: immediately after engine.addQuery(q) returns, q.entities is exactly the
\* entities of engine.entities that satisfy the predicate, each once and in
\* engine order, and q is wired to the engine.
C9_AddQueryMatchesEngine ==
    \A q \in Queries :
        (last.call.op = "addQuery" /\ last.call.q = q)
            => /\ members[q] = SelectSeq(entities, LAMBDA e : Satisfies(q, e))
               /\ q \in Range(queries)
               /\ q \in Range(wired)

\* C10: after engine.removeQuery(q), whatever addQuery / removeQuery calls
\* came before, q.entities is empty and no later call reaches q until q is
\* added again.
C10_RemovedQueryFrozen ==
    \A q \in Queries :
        qstate[q] = "removed"
            => /\ members[q] = <<>>
               /\ \A r \in Calls : r.q # q

\* the number of events of kind `kind` about entity e that q emitted during the last call
Emitted(q, kind, e) ==
    Cardinality({<<i, j>> \in (DOMAIN log) \X (1..2) :
                    /\ log[i].q = q /\ j \in DOMAIN log[i].evs
                    /\ log[i].evs[j].kind = kind /\ log[i].evs[j].cur = e})

\* C11: after engine.addEntity(e) every attached query contains e exactly
\* when its predicate holds on e, and each query that admitted e emitted one
\* onEntityAdded; after engine.removeEntity(e) no attached query contains e
\* and each query that contained it emitted one onEntityRemoved.
C11_AddRemoveEntitySyncs ==
    [][\A q \in Queries, e \in EntityIds :
        /\ (last'.call.op = "addEntity" /\ last'.call.e = e /\ ~InEngine(e) /\ Attached(q))
            => /\ (QueryHas(q, e) <=> Satisfies(q, e))'
               /\ (q \in subscribed /\ ~QueryHas(q, e) /\ QueryHas(q, e)') => Emitted(q, "added", e)' = 1
               /\ Emitted(q, "removed", e)' = 0
        /\ (last'.call.op = "removeEntity" /\ last'.call.e = e /\ InEngine(e) /\ Attached(q))
            => /\ ~QueryHas(q, e)'
               /\ (q \in subscribed /\ QueryHas(q, e)) => Emitted(q, "removed", e)' = 1
               /\ Emitted(q, "added", e)' = 0]_vars

\* C12: an entity other than sharedConfig has the engine's handlers on its
\* signals exactly when it is in engine.entities, also when addEntity /
\* removeEntity are called from a listener of Engine.onEntityAdded /
\* onEntityRemoved; so a change of an entity outside the engine reaches no query.
C12_ConnectedIffInEngine ==
    /\ \A e \in EntityIds \ {SharedConfig} : e \in connected <=> InEngine(e)
    /\ (last.call.op \in FieldOps /\ last.call.e # SharedConfig /\ ~InEngine(last.call.e)) => log = <<>>

\* what an entity's signal emitted: onComponentAdded / onComponentRemoved with (entity, x)
Signal(kind, e, x) == [kind |-> kind, e |-> e, x |-> x]
\* the instances entity e holds of the linked type, as iterate and lengthOf walk them
ListOf(e) ==
    IF ent[e].c["Damage"] = None \/ ent[e].l = NoList THEN <<>> ELSE nodes(Heap, ent[e].l).seq
\* the walk over the entity's linked instances never ends
Cyclic(e) == ent[e].c["Damage"] # None /\ ent[e].l # NoList /\ nodes(Heap, ent[e].l).cyc

\* C13: adding a non-linked instance to an entity that holds a different
\* instance of the type emits one onComponentRemoved for the old instance and
\* then one onComponentAdded for the new one, and get(type) returns the new
\* instance; adding the instance already held emits nothing and changes nothing.
C13_ReplaceEmitsRemovedThenAdded ==
    [][\A e \in EntityIds, x \in NonLinkedInst :
        (last'.call.op = "add" /\ last'.call.e = e /\ last'.call.x = x)
            => LET cls == getComponentClass(x, last'.call.rc)
                   old == ent[e].c[cls]
               IN /\ ent'[e].c[cls] = x
                  /\ old \notin {None, x} => sigs' = <<Signal("removed", e, old), Signal("added", e, x)>>
                  /\ old = None => sigs' = <<Signal("added", e, x)>>
                  /\ old = x => (sigs' = <<>> /\ ent' = ent)]_vars

\* C13 witness: an add has just replaced one plain instance by another
C13_Witness ==
    /\ last.call.op = "add" /\ last.call.x \in NonLinkedInst
    /\ Len(sigs) = 2 /\ sigs[1].kind = "removed" /\ sigs[2].kind = "added"
    /\ sigs[1].x \in NonLinkedInst /\ sigs[1].x # last.call.x /\ sigs[2].x = last.call.x
    /\ ent[last.call.e].c[getComponentClass(last.call.x, last.call.rc)] = last.call.x

\* the linked instances appended to entity e and not removed since, in append order
Appended(e) == ent[e].a
\* one onComponentRemoved per instance of `held`, in that order
RemovedEach(e, held) == [i \in 1..Len(held) |-> Signal("removed", e, held[i])]

\* C14: remove(type) on a linked type holding n appended instances emits
\* onComponentRemoved n times, once per instance in append order, leaves
\* has(type) false and lengthOf(type) 0, and returns the former head.
C14_RemoveEmitsPerInstance ==
    [][\A e \in EntityIds :
        (last'.call.op = "remove" /\ last'.call.e = e /\ last'.call.x = "Damage")
            => /\ sigs' = RemovedEach(e, Appended(e))
               /\ ~has(Heap, e, "Damage")'
               /\ lengthOf(Heap, e)' = 0
               /\ last'.ret = IF Appended(e) = <<>> THEN None ELSE Appended(e)[1]]_vars

\* C15: withdraw(type) removes and returns only the head of the type's list
\* and leaves the other instances in place and in order (so repeated calls
\* return the instances in append order); on a type with no instance it
\* returns undefined, emits nothing and changes nothing.
C15_WithdrawTakesHead ==
    [][\A e \in EntityIds :
        (last'.call.op = "withdraw" /\ last'.call.e = e /\ last'.call.x = "Damage")
            => IF Appended(e) = <<>>
               THEN last'.ret = None /\ sigs' = <<>> /\ ent' = ent /\ lhead' = lhead /\ nxt' = nxt
               ELSE /\ last'.ret = Appended(e)[1]
                    /\ ListOf(e)' = Tail(Appended(e))
                    /\ ~Cyclic(e)'
                    /\ sigs' = <<Signal("removed", e, Appended(e)[1])>>]_vars

\* C16: after remove(type) on a linked type, following next from the returned
\* head visits every instance that was in the list before the call, each once
\* and in append order, and then ends.
C16_RemovedChainIsWholeList ==
    [][\A e \in EntityIds :
        (last'.call.op = "remove" /\ last'.call.e = e /\ last'.call.x = "Damage" /\ Appended(e) # <<>>)
            => WalkFrom(nxt', last'.ret, <<>>) = [seq |-> Appended(e), cyc |-> FALSE]]_vars

\* C17: add(instance) with a linked instance replaces all instances of the
\* type, whatever the entity and the instance were before: onComponentRemoved
\* for every instance held, one onComponentAdded for the passed instance, and
\* afterwards the passed instance is the only one (lengthOf(type) is 1).
C17_AddLinkedReplacesAll ==
    [][\A e \in EntityIds, x \in LinkedInst :
        (last'.call.op = "add" /\ last'.call.e = e /\ last'.call.x = x)
            => /\ sigs' = RemovedEach(e, Appended(e)) \o <<Signal("added", e, x)>>
               /\ ListOf(e)' = <<x>>
               /\ lengthOf(Heap, e)' = 1]_vars

\* C18: iterate(type, action) whose action picks the instance it is visiting
\* calls the action once for every instance that was in the list when iterate
\* started, in list order, and afterwards the list holds exactly the
\* instances that were not picked.
C18_IterateVisitsAll ==
    [][\A e \in EntityIds :
        (last'.call.op = "iterate" /\ last'.call.e = e)
            => /\ seen' = Appended(e)
               /\ ListOf(e)' = SelectSeq(Appended(e), LAMBDA z : z \notin Picked(last'.call.x))
               /\ ~Cyclic(e)']_vars

\* the priority handler h is connected with
PriorityOf(h) == handlers[FindHandler(handlers, h)].priority
\* the place of handler h in the order of connection
ConnectedAt(h) == IndexOf(registered, h)

\* C19: after any sequence of connect, re-connect with a new priority and
\* disconnect, emit invokes the connected handlers in ascending priority
\* order, and handlers of equal priority in the order they were connected.
C19_EmitInPriorityThenConnectionOrder ==
    sigcall.op = "emit"
        => /\ Range(invoked) = Range(registered)
           /\ Len(invoked) = Len(registered)
           /\ \A i, j \in DOMAIN invoked :
                i < j => \/ PriorityOf(invoked[i]) < PriorityOf(invoked[j])
                         \/ /\ PriorityOf(invoked[i]) = PriorityOf(invoked[j])
                            /\ ConnectedAt(invoked[i]) < ConnectedAt(invoked[j])

\* C20: connecting a handler that is already connected creates no second
\* registration (handlersAmount is unchanged, the handler is called once per
\* emit) and only sets its priority; with the same priority the order of
\* invocation is unchanged; disconnecting a handler that is not connected
\* changes nothing.
C20_ConnectIsIdempotent ==
    [][/\ \A i, j \in DOMAIN handlers' : handlers'[i].handler = handlers'[j].handler => i = j
       /\ \A h \in Handlers :
            (sigcall'.op = "connect" /\ sigcall'.handler = h /\ FindHandler(handlers, h) # 0)
                => /\ Len(handlers') = Len(handlers)
                   /\ handlers'[FindHandler(handlers', h)].priority = sigcall'.priority
                   /\ \A g \in Handlers \ {h} :
                        FindHandler(handlers, g) # 0
                            => /\ FindHandler(handlers', g) # 0
                               /\ handlers'[FindHandler(handlers', g)].priority
                                    = handlers[FindHandler(handlers, g)].priority
                   /\ sigcall'.priority = handlers[FindHandler(handlers, h)].priority
                        => Signal_emit(handlers', throwers).invoked = Signal_emit(handlers, throwers).invoked
       /\ \A h \in Handlers :
            (sigcall'.op = "disconnect" /\ sigcall'.handler = h /\ FindHandler(handlers, h) = 0)
                => handlers' = handlers]_vars

\* C20 witness: a handler connected among others has just been connected
\* again with another priority, and there are as many registrations as handlers
C20_Witness ==
    /\ sigcall.op = "connect" /\ sigcall.was
    /\ Len(handlers) = 3 /\ Len(registered) = 3
    /\ \E h \in Handlers : PriorityOf(h) # PriorityOf(sigcall.handler)

\* C21: when a handler throws during emit, the handlers ordered before it and
\* the handler itself were invoked, the handlers ordered after it are not, the
\* exception reaches the caller of emit, and the connected handlers are as
\* they were; when none throws, every handler is invoked and emit returns.
C21_ThrowAbortsEmit ==
    [][sigcall'.op = "emit"
        => LET throwing == {i \in DOMAIN handlers : handlers[i].handler \in throwers} IN
           /\ handlers' = handlers
           /\ throwing = {} => (sigcall'.st = "ok" /\ Len(invoked') = Len(handlers))
           /\ throwing # {} =>
                /\ sigcall'.st = "throw"
                /\ \A i \in DOMAIN handlers :
                     (\E j \in DOMAIN invoked' : invoked'[j] = handlers[i].handler)
                        <=> \A k \in throwing : i <= k
           /\ \A j \in DOMAIN invoked' : invoked'[j] = handlers[j].handler]_vars

\* C21 witness: the second of three connected handlers has just thrown
\* during emit, and the third was not invoked
C21_Witness ==
    /\ sigcall.op = "emit" /\ sigcall.st = "throw"
    /\ Len(handlers) = 3 /\ Len(invoked) = 2
    /\ invoked[1] \notin throwers /\ invoked[2] \in throwers

\* the handlers of the entity's signal `name` in the order an emit calls them
CallOrder(e, name) == Signal_emit(esig[e][name], {}).invoked
First(order) == order[1]
Last(order) == order[Len(order)]

\* C22: for every entity in the engine, whatever handlers the application
\* connected to its signals and in whatever order, the engine's router is
\* connected to all three signals and is the last handler an emit of
\* onComponentAdded or onComponentRemoved calls and the first an emit of
\* onInvalidationRequested calls.
C22_RouterLastAndFirst ==
    \A e \in EntityIds \ {SharedConfig} :
        InEngine(e)
            => /\ \A name \in SignalNames : Router \in Range(CallOrder(e, name))
               /\ Last(CallOrder(e, "added")) = Router
               /\ Last(CallOrder(e, "removed")) = Router
               /\ First(CallOrder(e, "invalidation")) = Router

\* C23: after any sequence of addEntity, removeEntity, removeEntities,
\* removeAllEntities and clear, also with sharedConfig itself passed to them,
\* the engine's router is connected to the three signals of sharedConfig, and
\* a change of sharedConfig reaches every attached query.
C23_SharedConfigStaysWired ==
    /\ SharedConfig \in connected
    /\ \A name \in SignalNames : Router \in Range(CallOrder(SharedConfig, name))
    /\ (last.call.op \in FieldOps /\ last.call.e = SharedConfig /\ sigs # <<>>)
        => \A q \in Range(queries) : \E r \in Calls : r.q = q /\ r.e = SharedConfig

\* C24: for every query attached to the engine, q.has(engine.sharedConfig)
\* equals the query's predicate on sharedConfig, also when the query was
\* added after sharedConfig came to satisfy the predicate (sharedConfig
\* changed through add / remove / append / withdraw / pick only).
C24_SharedConfigInQueries ==
    \A q \in Queries :
        (Attached(q) /\ q \notin dup /\ SharedConfig \notin silent)
            => (QueryHas(q, SharedConfig) <=> Satisfies(q, SharedConfig))

\* the system is in engine.systems
AttachedSystem(system) == system \in Range(systems)

\* C25: reading system.engine or system.sharedConfig, or calling
\* system.dispatch, throws exactly when the system is not attached to an
\* engine: before its first addSystem and after removeSystem,
\* removeAllSystems or Engine.clear removed it; while attached none throws.
C25_ThrowsIffNotAttached ==
    \A system \in SystemIds :
        /\ System_engine(Heap, system) = "throw" <=> ~AttachedSystem(system)
        /\ System_sharedConfig(Heap, system) = "throw" <=> ~AttachedSystem(system)
        /\ System_dispatch(Heap, system) = "throw" <=> ~AttachedSystem(system)

\* the place of the system's last addSystem call among those of the attached systems
AddedAt(system) == IndexOf(sysAdded, system)

\* C26: after any sequence of addSystem and removeSystem calls, also ones
\* that add a system already in the engine with another priority,
\* engine.systems holds each attached system once, in ascending priority
\* order with equal priorities in order of addition, and update, updateFixed,
\* updateLate and updateRender invoke the systems in that order.
C26_SystemsInPriorityOrder ==
    /\ Range(systems) = Range(sysAdded)
    /\ \A i, j \in DOMAIN systems :
        /\ systems[i] = systems[j] => i = j
        /\ i < j => \/ priorityOf[systems[i]] < priorityOf[systems[j]]
                    \/ /\ priorityOf[systems[i]] = priorityOf[systems[j]]
                       /\ AddedAt(systems[i]) < AddedAt(systems[j])
    /\ last.call.op \in UpdateKinds => updated = systems

\* the subscription's messageType is a class the message is an instance of
\* (of the class itself or of a class it extends), or is the message itself
Matches(subscription, message) ==
    \/ /\ subscription.messageType \in Classes
       /\ message \in Inst
       /\ \/ ClassOf(message) = subscription.messageType
          \/ ClassOf(message) = "Sub" /\ subscription.messageType = "Position"
    \/ message = subscription.messageType

C28_DuplicateAppendFails ==
    [][\A e \in EntityIds, x \in LinkedInst :
        (last'.call.op = "append" /\ last'.call.e = e /\ last'.call.x = x /\ x \in Range(ListOf(e)))
            => /\ last'.st = "throw"
               /\ ListOf(e)' = ListOf(e)
               /\ Cyclic(e)' = Cyclic(e)
               /\ ent' = ent /\ lhead' = lhead /\ nxt' = nxt
               /\ sigs' = <<>>]_vars

\* C28 witness: the append of an instance that is in the list behind another
\* one has just failed
C28_Witness ==
    /\ last.call.op = "append" /\ last.st = "throw"
    /\ \E e \in EntityIds :
        /\ last.call.e = e
        /\ Len(ListOf(e)) >= 2
        /\ ListOf(e)[1] # last.call.x
        /\ last.call.x \in Range(ListOf(e))
        /\ ListOf(e) = Appended(e)

Content(e) ==
    (ent[e].t \cup {ent[e].c[cls] : cls \in {"Position", "Sub"}} \cup Range(ListOf(e))) \ {None}

\* what is held after the changes the signals evs[i..] tell of, starting from
\* `content`; ok is false when a signal tells of a change that is none (an
\* added for something held, a removed for something not held)
RECURSIVE Replay(_, _, _)
Replay(content, evs, i) ==
    IF i > Len(evs) THEN [content |-> content, ok |-> TRUE]
    ELSE IF evs[i].kind = "added"
         THEN IF evs[i].x \in content THEN [content |-> content, ok |-> FALSE]
              ELSE Replay(content \cup {evs[i].x}, evs, i + 1)
    ELSE IF evs[i].x \notin content THEN [content |-> content, ok |-> FALSE]
         ELSE Replay(content \ {evs[i].x}, evs, i + 1)

\* C30: every add, append, remove, withdraw or pick on an entity emits, before
\* it returns, exactly one onComponentAdded or onComponentRemoved of that
\* entity per instance or tag it puts in or takes out (the signals, taken in
\* order as changes of what the entity held before the call, give what it
\* holds after the call), each emitted when the change is applied (at an
\* added the entity holds the instance or tag, at a removed it does not); a
\* call that adds a tag already present or removes an absent type or tag
\* emits nothing and changes nothing.
C30_OneSignalPerChange ==
    [][\A e \in EntityIds :
        (last'.call.op \in FieldOps /\ last'.call.e = e)
            => /\ \A i \in DOMAIN sigs' : sigs'[i].e = e
               /\ Replay(Content(e), sigs', 1) = [content |-> Content(e)', ok |-> TRUE]
               /\ \A i \in DOMAIN sigs' : sigheld'[i] <=> sigs'[i].kind = "added"
               /\ (\/ last'.call.op = "add" /\ isTag(last'.call.x) /\ last'.call.x \in ent[e].t
                   \/ last'.call.op = "remove" /\ isTag(last'.call.x) /\ last'.call.x \notin ent[e].t
                   \/ last'.call.op = "remove" /\ ~isTag(last'.call.x) /\ ent[e].c[last'.call.x] = None)
                    => (sigs' = <<>> /\ ent' = ent /\ lhead' = lhead /\ nxt' = nxt)]_vars

\* C31: after any sequence of append, add, withdraw, pick and remove on
\* entities, the walk from the head of every linked list along the next
\* pointers is finite and meets no instance twice, and the number of
\* instances it meets (lengthOf) is the number of instances appended to the
\* entity and not removed since (no instance being held by two entities at
\* once).
C31_ListsFiniteAndCounted ==
    (\A e \in EntityIds : \A o \in EntityIds \ {e} : Range(Appended(e)) \cap Range(Appended(o)) = {})
        => \A e \in EntityIds :
            /\ ~Cyclic(e)
            /\ Len(ListOf(e)) = Len(Appended(e))

\* the head of the entity's linked list (LinkedComponentList.head), None without a list
ListHead(e) == IF ent[e].l = NoList THEN None ELSE lhead[ent[e].l]

\* C32: after every append, add, withdraw, pick and remove, get(Damage) is
\* the head of the entity's linked list and the slot is absent exactly when
\* the entity has no list or an empty one; a withdraw or pick that takes the
\* head makes the instance behind it the new head, and taking the last
\* instance leaves neither slot nor list.
C32_SlotIsListHead ==
    [][\A e \in EntityIds :
        /\ ent'[e].c["Damage"] = ListHead(e)'
        /\ (ent'[e].c["Damage"] = None) <=> (ListOf(e)' = <<>>)
        /\ (/\ last'.call.op \in {"withdraw", "pick"} /\ last'.call.e = e
            /\ ListHead(e) # None /\ last'.ret = ListHead(e))
            => /\ nxt[ListHead(e)] # None => ent'[e].c["Damage"] = nxt[ListHead(e)]
               /\ nxt[ListHead(e)] = None => (ent'[e].c["Damage"] = None /\ ent'[e].l = NoList)]_vars

\* C32 witness: a pick or withdraw has taken the head of a list of several
\* instances and the next instance is what get(Damage) returns
C32_Witness ==
    /\ last.call.op \in {"withdraw", "pick"} /\ last.ret \in LinkedInst
    /\ nxt[last.ret] # None
    /\ ent[last.call.e].c["Damage"] = nxt[last.ret]
    /\ ListHead(last.call.e) = nxt[last.ret]

\* C33: in every call of Query.entityComponentRemoved the rebuilt shadow
\* entity has the tags, the component slots and the number of linked
\* instances the entity had immediately before the removal, and a member for
\* which the predicate held before the removal and does not hold after it is
\* evicted.
C33_ShadowIsStateBeforeRemoval ==
    \A r \in Calls :
        r.fn = "entityComponentRemoved"
            => /\ r.ht = r.bt
               /\ r.hc = r.bc
               /\ r.hn = r.bn
               /\ (r.e \in Range(r.before) /\ r.was /\ ~r.now) => r.e \notin Range(r.after)

\* C34: in every call of Query.entityComponentAdded the predicate on the
\* rebuilt shadow entity gives what the predicate on the live entity gives,
\* whether a tag, a non-linked component, a linked component or a component
\* under a resolveClass other than its own class was added.
C34_ShadowAgreesOnAdded ==
    \A r \in Calls :
        r.fn = "entityComponentAdded" => (r.hp <=> r.now)

\* C37: the entities of a query never hold the same entity twice, and their
\* order is the order of admission: every handler call of a query leaves the
\* list alone, or puts one entity that was not in it at its end, or takes one
\* entity out of it and keeps the others in their order
C37_MembersOnceInAdmissionOrder ==
    /\ \A q \in Queries : \A i, j \in DOMAIN members[q] : members[q][i] = members[q][j] => i = j
    /\ \A r \in Calls :
        \/ r.after = r.before
        \/ r.e \notin Range(r.before) /\ r.after = Append(r.before, r.e)
        \/ r.e \in Range(r.before) /\ r.after = Splice(r.before, IndexOf(r.before, r.e))

\* two entities were admitted one behind the other, and the first one is evicted
C37_Witness ==
    \E r \in Calls :
        /\ Len(r.before) = 2 /\ r.before[1] # r.before[2]
        /\ r.e = r.before[1] /\ r.after = <<r.before[2]>>
        /\ members[r.q] = r.after

\* the component type a query's predicate asks for, None if it asks for no one type
Requires(kind) ==
    IF kind \in {"hasPosition", "contains"} THEN "Position"
    ELSE IF kind = "containsDamage" THEN "Damage"
    ELSE None
\* the class under which add(x, rc) stores the instance x
StoredAs(x, rc) == IF rc # None THEN rc ELSE ClassOf(x)
\* the last operation is e.add(x) and replaces another instance of the type T
Replaces(e, T) ==
    /\ last'.call.op = "add" /\ last'.call.e = e /\ last'.st = "ok"
    /\ ~isTag(last'.call.x)
    /\ StoredAs(last'.call.x, last'.call.rc) = T
    /\ ent[e].c[T] # None /\ ent[e].c[T] # last'.call.x
\* a removed event of the query for e comes before an added one in the last operation
RemovedThenAdded(q, e) ==
    \E i, j \in DOMAIN log :
        /\ i < j /\ log[i].q = q /\ log[j].q = q
        /\ \E k \in DOMAIN log[i].evs : log[i].evs[k].kind = "removed" /\ log[i].evs[k].cur = e
        /\ \E k \in DOMAIN log[j].evs : log[j].evs[k].kind = "added" /\ log[j].evs[k].cur = e

\* C38: when an entity is a member of an attached, listened-to query that
\* requires the component type T, and e.add(newInstance) replaces its
\* instance of T by another one, the query emits onEntityRemoved and then
\* onEntityAdded for the entity, once each, and the entity ends as the last
\* of query.entities
C38_ReplaceEmitsRemovedThenAdded ==
    [][\A e \in EntityIds : \A q \in Queries :
        (/\ Attached(q) /\ q \in subscribed /\ QueryHas(q, e) /\ e \in connected
         /\ Requires(pred[q]) # None
         /\ Replaces(e, Requires(pred[q])))
            => /\ Emitted(q, "removed", e)' = 1
               /\ Emitted(q, "added", e)' = 1
               /\ RemovedThenAdded(q, e)'
               /\ members'[q] # <<>> /\ members'[q][Len(members'[q])] = e]_vars

\* how often the handler (the entity, the system) is in the sequence of the called ones
TimesInvoked(called, handler) == Cardinality({i \in DOMAIN called : called[i] = handler})

\* C39: Signal.emit calls exactly once every handler that is connected when
\* the emission starts and is not disconnected before its turn, also when a
\* handler connects or disconnects handlers of the signal during the emit:
\* every handler connected before and after the emit, and the handler that
\* touched the signal (it was connected when its turn came), is called once
C39_EmitCallsEveryHandlerOnce ==
    [][(sigcall'.op = "emit" /\ sigcall'.handler # None /\ sigcall'.st = "ok")
        => \A i \in DOMAIN handlers :
            (FindHandler(handlers', handlers[i].handler) # 0 \/ handlers[i].handler = sigcall'.handler)
                => TimesInvoked(invoked', handlers[i].handler) = 1]_vars

\* the last call is engine.update, the iterative system is in the engine
\* once and was never removed from it
IterativePass ==
    /\ last'.call.op = "update" /\ last'.st = "ok"
    /\ TimesInvoked(systems, IterativeSystemId) = 1
    /\ ~stopped

\* C35: one pass of IterativeSystem.update calls updateEntity exactly once
\* for every entity that is in the system's query when the pass starts and
\* is still a member when its turn comes, also when updateEntity makes the
\* entity it is given leave the query (no system is removed in the pass and
\* no entity leaves the query before its turn)
C35_EveryMemberUpdatedOnce ==
    [][(IterativePass /\ last'.call.x = None)
        => \A e \in Range(members[LoopedQuery]) : TimesInvoked(visited', e) = 1]_vars

\* C36: when a system is removed from the engine during Engine.update (a
\* system removes itself or another one in its own update), every other
\* system attached to the engine, each held once, still has its update
\* called exactly once in that update
C36_OtherSystemsStillUpdated ==
    [][(/\ last'.call.op = "update" /\ last'.st = "ok"
        /\ last'.call.x # None /\ last'.call.rc \in Range(systems)
        /\ \A system \in Range(systems) : TimesInvoked(systems, system) = 1)
        => \A system \in Range(systems) \ {last'.call.rc} : TimesInvoked(updated', system) = 1]_vars

\* C40: whenever an IterativeSystem is attached to an engine (it is in the
\* engine once and its engine is defined), also after it was removed and
\* added again, an Engine.update in which no system is removed and no entity
\* leaves the query calls its updateEntity for every entity of its query
C40_ReattachedSystemUpdates ==
    [][(/\ last'.call.op = "update" /\ last'.st = "ok"
        /\ last'.call.x = None /\ last'.call.q = 0
        /\ TimesInvoked(systems, IterativeSystemId) = 1 /\ IterativeSystemId \in hasEngine)
        => \A e \in Range(members[LoopedQuery]) : TimesInvoked(visited', e) = 1]_vars

====
